---------------------------- MODULE Spec2Model ----------------------------
(***************************************************************************)
(* A model of numsim-propex: the key composition (key_traits), the flat    *)
(* registry (registry.hpp), the property node with its ownership policies  *)
(* (propex_node.h, ownership_policies.h) and the property view             *)
(* (property_view.h).                                                      *)
(*                                                                         *)
(* Strings are sequences of one-character strings.  A registry's map is a  *)
(* set of entries [key, ptr]; a node pointer is a node id, or NULL for an  *)
(* empty unique_ptr / shared_ptr.                                          *)
(***************************************************************************)
EXTENDS Integers, Sequences, FiniteSets, TLC

VARIABLES
    Delimiter,  \* key_traits<std::string, Delimiter>: fixed per registry type
    exclusive,  \* NodePtr: TRUE for std::unique_ptr, FALSE for std::shared_ptr
    data_,      \* data_[r]: the map of registry object r (1 = reg, 2 = reg2)
    heap,       \* the heap of TestNode objects: id -> [state, value]
    held,       \* the client's own shared_ptr variable: a node it co-owns, or NULL
    Ownership,  \* the ownership policy the node and view types are instantiated with
    nodes,      \* the node<int, Ownership> objects: id -> its storage_
    ext,        \* the client's int variables a by_reference node may refer to
    cells,      \* the int cells std::shared_ptr<int> handles point to
    sp,         \* the client's own std::shared_ptr<int>: a cell, or NULL
    views,      \* the property_view objects: id -> node_
    threads,    \* the writer and reader threads that access one atomic node
    crashed,    \* the process was terminated abnormally
    last        \* the last call: its name, arguments and outcome

regVars == <<Delimiter, exclusive, data_, heap, held>>

nodeVars == <<Ownership, nodes, ext, cells, sp, views>>

vars == <<regVars, nodeVars, threads, crashed, last>>

-----------------------------------------------------------------------------
(* Bounds of the model *)

MaxNodes == 2

MaxEntries == 2

\* The heap cells of shared storage that are alive at a time.
MaxCells == 2

\* The length of the keys offered to split().
MaxLen == 3

\* The number of fragments offered to merge().
MaxFragments == 3

NULL == 0

NodeIds == 1..MaxNodes

\* The values a TestNode is constructed with or assigned.
Values == {7, 42}

Regs == {1, 2}

Delimiters == {":", ";"}

\* The argument lists offered to add(): the empty fragment, one fragment
\* that embeds ':', two plain fragments, and three fragments the last of
\* which is empty.
ArgLists ==
    { << <<>> >>,
      << <<"a", ":", "b">> >>,
      << <<"a">>, <<"b">> >>,
      << <<"a">>, <<"b">>, <<>> >> }

-----------------------------------------------------------------------------
(* key_traits<std::string, Delimiter> *)

\* The fold expression of merge: every fragment is appended, followed by one
\* delimiter.
RECURSIVE AppendAll(_, _, _)
AppendAll(result, args, d) ==
    IF args = <<>> THEN result
    ELSE AppendAll(result \o Head(args) \o <<d>>, Tail(args), d)

pop_back(s) == SubSeq(s, 1, Len(s) - 1)

\* A merge that joins with ':' whatever the delimiter of the type.
merge_colon(args, d) ==
    IF Len(args) = 0 THEN <<>> ELSE pop_back(AppendAll(<<>>, args, ":"))

\* A merge that leaves the delimiter appended after the last fragment.
merge_keep(args, d) ==
    IF Len(args) = 0 THEN <<>> ELSE AppendAll(<<>>, args, d)

merge(args, d) ==
    IF Len(args) = 0 THEN <<>>
    ELSE LET result == AppendAll(<<>>, args, d)
         IN  IF result # <<>> THEN pop_back(result) ELSE result

\* std::string_view::npos
npos == -1

\* key.find(d, start): the first position from start on that holds d.
RECURSIVE str_find(_, _, _)
str_find(key, d, start) ==
    IF start >= Len(key) THEN npos
    ELSE IF key[start + 1] = d THEN start
    ELSE str_find(key, d, start + 1)

\* key.substr(start, n), positions counted from 0.
substr(key, start, n) == SubSeq(key, start + 1, start + n)

\* The loop of split: parts so far, and the position the next part starts at.
RECURSIVE split_loop(_, _, _, _)
split_loop(key, d, start, parts) ==
    LET pos == str_find(key, d, start)
    IN  IF pos = npos
        THEN Append(parts, substr(key, start, Len(key) - start))
        ELSE split_loop(key, d, pos + 1, Append(parts, substr(key, start, pos - start)))

\* A split that leaves the empty parts out.
split_collapse(key, d) ==
    LET parts == split_loop(key, d, 0, <<>>)
    IN  SelectSeq(parts, LAMBDA p : p # <<>>)

\* key_traits::split(key)
split(key, d) == split_loop(key, d, 0, <<>>)

-----------------------------------------------------------------------------
(* registry *)

\* make_key that keeps only the first fragment.
make_key_first(args, d) == args[1]

\* make_key that leaves the delimiter appended after the last fragment.
make_key_trailing(args, d) == AppendAll(<<>>, args, d)

make_key(args, d) ==
    IF Len(args) = 1 THEN args[1] ELSE merge(args, d)

\* data_.find(key): the entries with that key; the empty set is end().
MapFind(m, key) == {e \in m : e.key = key}

Second(it) == (CHOOSE e \in it : TRUE).ptr

\* data_.insert({key, node}): an existing entry is kept as it is.
MapAssign_insert(m, key, node) ==
    IF MapFind(m, key) # {} THEN m ELSE m \cup {[key |-> key, ptr |-> node]}

\* data_[key] = node: operator[] finds the entry or inserts one, the
\* assignment replaces the pointer it holds.
MapAssign(m, key, node) ==
    IF MapFind(m, key) # {}
    THEN (m \ MapFind(m, key)) \cup {[key |-> key, ptr |-> node]}
    ELSE m \cup {[key |-> key, ptr |-> node]}

MapErase(m, key) == m \ MapFind(m, key)

\* clear() that leaves the map as it is.
MapClear_keep(m) == m

MapClear(m) == {}

\* find that returns the first element whatever its key.
find_begin(m, key) == IF m # {} THEN Second(m) ELSE NULL

find(m, key) ==
    LET it == MapFind(m, key)
    IN  IF it # {} THEN Second(it) ELSE NULL

contains(m, key) == MapFind(m, key) # {}

at(m, key) ==
    LET it == MapFind(m, key)
    IN  IF it = {} THEN [err |-> "out_of_range", ref |-> NULL]
        ELSE [err |-> "none", ref |-> Second(it)]

\* erase with >= for >.
erase_ge(m, key) == Cardinality(MapFind(m, key)) >= 0

erase(m, key) == Cardinality(MapFind(m, key)) > 0

-----------------------------------------------------------------------------
(* Ownership of the nodes: unique_ptr / shared_ptr *)

\* The owners of node n: the entries that point to it and the client's pointer.
use_count(d, h, n) ==
    Cardinality({e \in d[1] : e.ptr = n}) + Cardinality({e \in d[2] : e.ptr = n})
        + (IF n = h THEN 1 ELSE 0)

\* A node is destroyed when its last owning pointer is reset or destroyed.
Release(hp, d, h) ==
    [n \in NodeIds |->
        IF hp[n].state = "live" /\ use_count(d, h, n) = 0
        THEN [state |-> "destroyed", value |-> 0]
        ELSE hp[n]]

FreeIds == {n \in NodeIds : heap[n].state = "free"}

\* new TestNode(v)
NewNode == CHOOSE n \in FreeIds : \A m \in FreeIds : n <= m

\* The record of a call: op, the registry it was made on, its arguments
\* (args, key, node, val) and its outcome (ptr: the pointer or reference
\* returned, flag: the boolean returned, err: the exception thrown, or
\* "abort").  For add, flag tells whether an entry was replaced and ptr is
\* the pointer that entry held.
Call(op, r, args, key, node, ptr, flag, err) ==
    [op |-> op, reg |-> r, args |-> args, key |-> key, node |-> node,
     ptr |-> ptr, flag |-> flag, err |-> err, val |-> 0]

\* No thread besides the main thread runs.
NoThreads == threads = <<>>

\* No node and no view is declared.
NoNodes ==
    /\ Ownership = "by_value"
    /\ nodes = <<>>
    /\ ext = <<>>
    /\ cells = <<>>
    /\ sp = NULL
    /\ views = <<>>

\* Every key the fragment lists compose, under either delimiter.
Keys == {make_key(a, d) : a \in ArgLists, d \in Delimiters}

\* The keys the client looks up and erases: the ones its fragment lists
\* compose with the registry's delimiter, stored or not.
LookupKeys == {make_key(a, Delimiter) : a \in ArgLists}

RegInit ==
    /\ Delimiter \in Delimiters
    /\ exclusive \in BOOLEAN
    /\ data_ = [r \in Regs |-> {}]
    /\ heap = [n \in NodeIds |-> [state |-> "free", value |-> 0]]
    /\ held = NULL
    /\ crashed = FALSE
    /\ last = Call("init", 0, <<>>, <<>>, NULL, NULL, FALSE, "none")
    /\ NoNodes
    /\ NoThreads

\* The model bounds the number of entries the two maps hold together.
HasRoom(r, key) ==
    contains(data_[r], key)
        \/ Cardinality(data_[1]) + Cardinality(data_[2]) < MaxEntries

\* add(std::move(node), args...): the body of registry::add.
add(r, node, args, hp, h) ==
    LET key == make_key(args, Delimiter)
    IN  /\ data_' = [data_ EXCEPT ![r] = MapAssign(@, key, node)]
        /\ held' = h
        /\ heap' = Release(hp, data_', h)
        /\ last' = Call("add", r, args, key, node, find(data_[r], key),
                        contains(data_[r], key), "none")
        /\ UNCHANGED <<Delimiter, exclusive, crashed>>
        /\ UNCHANGED <<nodeVars, threads>>

\* reg.add(node_pointer(new TestNode(v)), args...); with shared_ptr the
\* client may keep a copy of the pointer in held.
AddNew(args, v, keep) ==
    /\ ~crashed
    /\ FreeIds # {}
    /\ HasRoom(1, make_key(args, Delimiter))
    /\ keep => ~exclusive
    /\ LET n == NewNode
       IN  add(1, n, args, [heap EXCEPT ![n] = [state |-> "live", value |-> v]],
               IF keep THEN n ELSE held)

\* reg.add(node_pointer(held), args...): a copy of the client's pointer.
AddHeld(args) ==
    /\ ~crashed
    /\ ~exclusive
    /\ held # NULL
    /\ HasRoom(1, make_key(args, Delimiter))
    /\ add(1, held, args, heap, held)

\* reg.add(node_pointer{}, args...): add does not look at the pointer.
AddNull(args) ==
    /\ ~crashed
    /\ HasRoom(1, make_key(args, Delimiter))
    /\ add(1, NULL, args, heap, held)

\* held.reset()
DropHeld ==
    /\ ~crashed
    /\ held # NULL
    /\ held' = NULL
    /\ heap' = Release(heap, data_, held')
    /\ last' = Call("drop", 0, <<>>, <<>>, held, NULL, FALSE, "none")
    /\ UNCHANGED <<Delimiter, exclusive, data_, crashed>>
    /\ UNCHANGED <<nodeVars, threads>>

Find(key) ==
    /\ ~crashed
    /\ last' = Call("find", 1, <<>>, key, NULL, find(data_[1], key), FALSE, "none")
    /\ UNCHANGED <<Delimiter, exclusive, data_, heap, held, crashed>>
    /\ UNCHANGED <<nodeVars, threads>>

Contains(key) ==
    /\ ~crashed
    /\ last' = Call("contains", 1, <<>>, key, NULL, NULL, contains(data_[1], key), "none")
    /\ UNCHANGED <<Delimiter, exclusive, data_, heap, held, crashed>>
    /\ UNCHANGED <<nodeVars, threads>>

\* auto& node = reg.at(key).  An entry that holds an empty pointer makes
\* *it->second undefined: the build either aborts on the library's non-null
\* assertion or hands out a reference to address 0.
At(key) ==
    /\ ~crashed
    /\ LET res == at(data_[1], key)
       IN  \/ /\ res.err = "out_of_range"
              /\ last' = Call("at", 1, <<>>, key, NULL, NULL, FALSE, res.err)
              /\ UNCHANGED crashed
           \/ /\ res.err = "none"
              /\ last' = Call("at", 1, <<>>, key, NULL, res.ref, FALSE, "none")
              /\ UNCHANGED crashed
           \/ /\ res.err = "none"
              /\ res.ref = NULL
              /\ crashed' = TRUE
              /\ last' = Call("at", 1, <<>>, key, NULL, NULL, FALSE, "abort")
    /\ UNCHANGED <<Delimiter, exclusive, data_, heap, held>>
    /\ UNCHANGED <<nodeVars, threads>>

\* node.value = v through the reference at() has just returned.  Writing
\* through a reference to address 0 ends the process.
WriteRef(v) ==
    /\ ~crashed
    /\ last.op = "at" /\ last.err = "none"
    /\ \/ /\ last.ptr # NULL
          /\ heap' = [heap EXCEPT ![last.ptr].value = v]
          /\ last' = [Call("write", 1, <<>>, last.key, last.ptr, NULL, FALSE, "none")
                          EXCEPT !.val = v]
          /\ UNCHANGED crashed
       \/ /\ last.ptr = NULL
          /\ crashed' = TRUE
          /\ last' = Call("write", 1, <<>>, last.key, NULL, NULL, FALSE, "abort")
          /\ UNCHANGED heap
    /\ UNCHANGED <<Delimiter, exclusive, data_, held>>
    /\ UNCHANGED <<nodeVars, threads>>

Erase(key) ==
    /\ ~crashed
    /\ data_' = [data_ EXCEPT ![1] = MapErase(@, key)]
    /\ heap' = Release(heap, data_', held)
    /\ last' = Call("erase", 1, <<>>, key, NULL, NULL, erase(data_[1], key), "none")
    /\ UNCHANGED <<Delimiter, exclusive, held, crashed>>
    /\ UNCHANGED <<nodeVars, threads>>

Clear ==
    /\ ~crashed
    /\ data_' = [data_ EXCEPT ![1] = MapClear(@)]
    /\ heap' = Release(heap, data_', held)
    /\ last' = Call("clear", 1, <<>>, <<>>, NULL, NULL, FALSE, "none")
    /\ UNCHANGED <<Delimiter, exclusive, held, crashed>>
    /\ UNCHANGED <<nodeVars, threads>>

\* A move that empties the source and does not fill the destination.
MoveMap_lose(dst, src) ==
    [r \in Regs |-> IF r = src THEN {} ELSE data_[r]]

\* The defaulted move members move data_: the destination takes the
\* source's elements, the source is left empty, and what the destination
\* held before is destroyed.
MoveMap(dst, src) ==
    [r \in Regs |-> IF r = dst THEN data_[src] ELSE IF r = src THEN {} ELSE data_[r]]

\* Reg dst(std::move(src)), in place of a registry that went out of scope;
\* source and destination are two objects.
MoveConstruct(dst, src) ==
    /\ ~crashed
    /\ dst # src
    /\ data_' = MoveMap(dst, src)
    /\ heap' = Release(heap, data_', held)
    /\ last' = Call("move_construct", dst, <<>>, <<>>, src, NULL, FALSE, "none")
    /\ UNCHANGED <<Delimiter, exclusive, held, crashed>>
    /\ UNCHANGED <<nodeVars, threads>>

\* dst = std::move(src), source and destination being two objects.
MoveAssign(dst, src) ==
    /\ ~crashed
    /\ dst # src
    /\ data_' = MoveMap(dst, src)
    /\ heap' = Release(heap, data_', held)
    /\ last' = Call("move_assign", dst, <<>>, <<>>, src, NULL, FALSE, "none")
    /\ UNCHANGED <<Delimiter, exclusive, held, crashed>>
    /\ UNCHANGED <<nodeVars, threads>>

RegNext ==
    \/ \E args \in ArgLists, v \in Values, keep \in BOOLEAN : AddNew(args, v, keep)
    \/ \E args \in ArgLists : AddHeld(args)
    \/ \E args \in ArgLists : AddNull(args)
    \/ DropHeld
    \/ \E key \in LookupKeys : Find(key)
    \/ \E key \in LookupKeys : Contains(key)
    \/ \E key \in LookupKeys : At(key)
    \/ \E v \in Values : WriteRef(v)
    \/ \E key \in LookupKeys : Erase(key)
    \/ Clear

\* One registry and the calls of its interface.
RegSpec == RegInit /\ [][RegNext]_vars

MoveNext ==
    \/ \E args \in ArgLists, v \in Values, keep \in BOOLEAN : AddNew(args, v, keep)
    \/ \E args \in ArgLists : AddHeld(args)
    \/ \E args \in ArgLists : AddNull(args)
    \/ DropHeld
    \/ \E dst \in Regs, src \in Regs : MoveConstruct(dst, src)
    \/ \E dst \in Regs, src \in Regs : MoveAssign(dst, src)

\* Two registry objects: reg is filled, and the two are moved into each other.
MoveSpec == RegInit /\ [][MoveNext]_vars

-----------------------------------------------------------------------------
(* ownership policies, node and property_view *)

Policies == {"by_value", "by_reference", "by_shared", "by_atomic"}

\* The node objects, the view objects and the int variables the client declares.
PNodeIds == {1, 2}

ViewIds == {1, 2}

ExtIds == {1, 2}

\* The cells std::make_shared can allocate.  A cell lives as long as a
\* shared_ptr points to it, the client's sp or a node's handle.
CellIds == 1..MaxCells

\* A node that is not constructed yet.
\* expect and via record what a read of the node is to yield and why: the
\* value it was constructed with (via = "construct") or the value last
\* written through it (via = "set": node::set, or the view's set_checked,
\* set and operator=), until its storage is written by another route.
NoNode == [made |-> FALSE, value |-> 0, ptr |-> NULL, expect |-> 0, via |-> ""]

NCall(op, n, w, v, err) == [op |-> op, node |-> n, view |-> w, val |-> v, err |-> err]

NodeInit ==
    /\ Ownership \in Policies
    /\ nodes = [n \in PNodeIds |-> NoNode]
    /\ ext = [x \in ExtIds |-> 7]
    /\ cells = [c \in CellIds |-> 0]
    /\ sp = NULL
    /\ views = [w \in ViewIds |-> NULL]
    /\ crashed = FALSE
    /\ last = NCall("init", NULL, NULL, 0, "none")
    /\ Delimiter = ":"
    /\ exclusive = TRUE
    /\ data_ = [r \in Regs |-> {}]
    /\ heap = [n \in NodeIds |-> [state |-> "free", value |-> 0]]
    /\ held = NULL
    /\ NoThreads

\* The cells some shared_ptr points to.
Owned(nd, h) == {nd[n].ptr : n \in {m \in PNodeIds : nd[m].made}} \cup {h}

\* The last shared_ptr to a cell is gone: the cell is deleted.
Collect(cl, nd, h) ==
    [c \in CellIds |-> IF c \in Owned(nd, h) THEN cl[c] ELSE 0]

\* std::make_shared<int>(v): a cell no shared_ptr points to yet.
NewCell(nd, h) ==
    CHOOSE c \in CellIds \ Owned(nd, h) : \A d \in CellIds \ Owned(nd, h) : c <= d

\* A factory that value-initialises what it allocates or holds.
make_value_default(policy, v, x, nd, h) ==
    CASE policy = "by_value" -> [value |-> 0, ptr |-> NULL, cell |-> 0]
      [] policy = "by_atomic" -> [value |-> 0, ptr |-> NULL, cell |-> 0]
      [] policy = "by_shared" -> [value |-> 0, ptr |-> NewCell(nd, h), cell |-> 0]
      [] policy = "by_reference" -> [value |-> 0, ptr |-> NULL, cell |-> 0]

\* make_storage<Ownership<T>>::make(const T& v) and make(T& v): the storage
\* of a node constructed from a value v, or from the int variable x; cell
\* is what std::make_shared puts into the cell it allocates.
make_value(policy, v, x, nd, h) ==
    CASE policy = "by_value" -> [value |-> v, ptr |-> NULL, cell |-> 0]
      [] policy = "by_atomic" -> [value |-> v, ptr |-> NULL, cell |-> 0]
      [] policy = "by_shared" -> [value |-> 0, ptr |-> NewCell(nd, h), cell |-> v]
      [] policy = "by_reference" -> [value |-> 0, ptr |-> x, cell |-> 0]

\* A get that reads the value kept in the node itself, whatever the policy.
storage_get_inline(policy, st, ex, cl) == [err |-> "none", val |-> st.value]

\* A get that dereferences the address without testing it.
storage_get_nocheck(policy, st, ex, cl) ==
    [err |-> "none",
     val |-> IF policy = "by_reference" /\ st.ptr # NULL THEN ex[st.ptr] ELSE st.value]

\* storage_traits<Ownership<T>>::get(storage_).  by_reference::get throws
\* std::runtime_error on a null address; *ptr on an empty shared_ptr is
\* undefined and ends the process at address 0.
storage_get(policy, st, ex, cl) ==
    CASE policy = "by_value" -> [err |-> "none", val |-> st.value]
      [] policy = "by_atomic" -> [err |-> "none", val |-> st.value]
      [] policy = "by_reference" ->
            IF st.ptr = NULL THEN [err |-> "runtime_error", val |-> 0]
            ELSE [err |-> "none", val |-> ex[st.ptr]]
      [] policy = "by_shared" ->
            IF st.ptr = NULL THEN [err |-> "null_deref", val |-> 0]
            ELSE [err |-> "none", val |-> cl[st.ptr]]

\* node::get() noexcept: an exception that leaves it calls std::terminate.
node_get(policy, st, ex, cl) ==
    LET r == storage_get(policy, st, ex, cl)
    IN  IF r.err = "runtime_error" THEN [err |-> "terminate", val |-> 0] ELSE r

\* A set that writes the value into the node itself, whatever the policy.
storage_set_inline(policy, n, v, nd, ex, cl) ==
    [err |-> "none", nodes |-> [nd EXCEPT ![n].value = v], ext |-> ex, cells |-> cl]

\* storage_traits<Ownership<T>>::set(storage_, v) for a value v: the node,
\* the variables and the cells after it.
storage_set(policy, n, v, nd, ex, cl) ==
    CASE policy = "by_value" ->
            [err |-> "none", nodes |-> [nd EXCEPT ![n].value = v], ext |-> ex, cells |-> cl]
      [] policy = "by_atomic" ->
            [err |-> "none", nodes |-> [nd EXCEPT ![n].value = v], ext |-> ex, cells |-> cl]
      [] policy = "by_reference" ->
            IF nd[n].ptr = NULL
            THEN [err |-> "runtime_error", nodes |-> nd, ext |-> ex, cells |-> cl]
            ELSE [err |-> "none", nodes |-> nd, ext |-> [ex EXCEPT ![nd[n].ptr] = v],
                  cells |-> cl]
      [] policy = "by_shared" ->
            IF nd[n].ptr = NULL
            THEN [err |-> "null_deref", nodes |-> nd, ext |-> ex, cells |-> cl]
            ELSE [err |-> "none", nodes |-> nd, ext |-> ex,
                  cells |-> [cl EXCEPT ![nd[n].ptr] = v]]

\* node::set(U&&) noexcept
node_set(policy, n, v, nd, ex, cl) ==
    LET r == storage_set(policy, n, v, nd, ex, cl)
    IN  IF r.err = "runtime_error" THEN [r EXCEPT !.err = "terminate"] ELSE r

\* The nodes that read the storage node n writes: n itself, the nodes that
\* refer to the same variable, the nodes whose handle points to the same cell.
Aliases(n) ==
    {m \in PNodeIds :
        \/ m = n
        \/ /\ nodes[m].made /\ nodes[n].made
           /\ Ownership \in {"by_reference", "by_shared"}
           /\ nodes[m].ptr # NULL
           /\ nodes[m].ptr = nodes[n].ptr}

\* The bookkeeping of a write: node n was last written v by way of via, and
\* the other nodes in ms had their storage written by another route.
Note(nd, ms, n, v, via) ==
    [m \in PNodeIds |->
        IF m = n THEN [nd[m] EXCEPT !.expect = v, !.via = via]
        ELSE IF m \in ms THEN [nd[m] EXCEPT !.expect = 0, !.via = ""]
        ELSE nd[m]]

\* Node n(v), or for by_reference Node n(x) with the int variable x.
Construct(n, v, x) ==
    /\ ~crashed
    /\ ~nodes[n].made
    /\ IF Ownership = "by_reference" THEN v = ext[x] ELSE x = 1
    /\ Ownership = "by_shared" => CellIds \ Owned(nodes, sp) # {}
    /\ LET st == make_value(Ownership, v, x, nodes, sp)
       IN  /\ nodes' = [nodes EXCEPT ![n] =
                          [made |-> TRUE, value |-> st.value, ptr |-> st.ptr,
                           expect |-> v, via |-> "construct"]]
           /\ cells' = IF Ownership = "by_shared"
                       THEN [cells EXCEPT ![st.ptr] = st.cell] ELSE cells
    /\ last' = NCall("construct", NULL, NULL, 0, "none")
    /\ UNCHANGED <<Ownership, ext, sp, views, crashed, regVars, threads>>

\* Node n(sp): make(std::shared_ptr<T> const&) copies the handle, empty or not.
ConstructHandle(n) ==
    /\ ~crashed
    /\ Ownership = "by_shared"
    /\ ~nodes[n].made
    /\ nodes' = [nodes EXCEPT ![n] =
                   IF sp = NULL THEN [NoNode EXCEPT !.made = TRUE]
                   ELSE [made |-> TRUE, value |-> 0, ptr |-> sp,
                         expect |-> cells[sp], via |-> "construct"]]
    /\ last' = NCall("construct_handle", NULL, NULL, 0, "none")
    /\ UNCHANGED <<Ownership, ext, cells, sp, views, crashed, regVars, threads>>

\* sp = std::make_shared<int>(v)
MakeShared(v) ==
    /\ ~crashed
    /\ Ownership = "by_shared"
    /\ CellIds \ Owned(nodes, sp) # {}
    /\ LET c == NewCell(nodes, sp)
       IN  /\ sp' = c
           /\ cells' = Collect([cells EXCEPT ![c] = v], nodes, c)
    /\ last' = NCall("make_shared", NULL, NULL, 0, "none")
    /\ UNCHANGED <<Ownership, nodes, ext, views, crashed, regVars, threads>>

\* sp.reset()
ResetSp ==
    /\ ~crashed
    /\ sp # NULL
    /\ sp' = NULL
    /\ cells' = Collect(cells, nodes, NULL)
    /\ last' = NCall("reset", NULL, NULL, 0, "none")
    /\ UNCHANGED <<Ownership, nodes, ext, views, crashed, regVars, threads>>

\* *sp = v
CellWrite(v) ==
    /\ ~crashed
    /\ sp # NULL
    /\ cells' = [cells EXCEPT ![sp] = v]
    /\ nodes' = Note(nodes, {m \in PNodeIds : nodes[m].made /\ nodes[m].ptr = sp}, NULL, v, "")
    /\ last' = NCall("cell_write", NULL, NULL, v, "none")
    /\ UNCHANGED <<Ownership, ext, sp, views, crashed, regVars, threads>>

\* x = v, the client assigning its own variable
ExtWrite(x, v) ==
    /\ ~crashed
    /\ Ownership = "by_reference"
    /\ ext' = [ext EXCEPT ![x] = v]
    /\ nodes' = Note(nodes, {m \in PNodeIds : nodes[m].made /\ nodes[m].ptr = x}, NULL, v, "")
    /\ last' = NCall("ext_write", NULL, NULL, v, "none")
    /\ UNCHANGED <<Ownership, cells, sp, views, crashed, regVars, threads>>

\* A read of node n, reached directly (w = NULL) or through view w.
Read(op, n, w) ==
    LET r == node_get(Ownership, nodes[n], ext, cells)
    IN  /\ last' = NCall(op, n, w, r.val, r.err)
        /\ crashed' = (r.err # "none")
        /\ UNCHANGED <<nodeVars, regVars, threads>>

\* A write of v to node n, reached directly (w = NULL) or through view w.
Write(op, n, w, v) ==
    LET r == node_set(Ownership, n, v, nodes, ext, cells)
    IN  /\ last' = NCall(op, n, w, v, r.err)
        /\ crashed' = (r.err # "none")
        /\ nodes' = IF r.err = "none" THEN Note(r.nodes, Aliases(n), n, v, "set") ELSE nodes
        /\ ext' = r.ext
        /\ cells' = r.cells
        /\ UNCHANGED <<Ownership, sp, views, regVars, threads>>

\* n.get()
NodeGet(n) ==
    /\ ~crashed
    /\ nodes[n].made
    /\ Read("node_get", n, NULL)

\* n.set(v)
NodeSet(n, v) ==
    /\ ~crashed
    /\ nodes[n].made
    /\ Write("node_set", n, NULL, v)

\* n.set(std::shared_ptr<int>(sp)): storage_traits<by_shared<T>>::set has an
\* overload for a shared_ptr rvalue, which replaces the node's handle.
NodeSetHandle(n) ==
    /\ ~crashed
    /\ Ownership = "by_shared"
    /\ nodes[n].made
    /\ nodes' = [nodes EXCEPT ![n] = [@ EXCEPT !.ptr = sp, !.expect = 0, !.via = ""]]
    /\ cells' = Collect(cells, nodes', sp)
    /\ last' = NCall("node_set_handle", NULL, NULL, 0, "none")
    /\ UNCHANGED <<Ownership, ext, sp, views, crashed, regVars, threads>>

\* A valid() that answers true for every view.
valid_always(w) == TRUE

\* A valid() that follows the life of the node, as a weak pointer would.
valid_expired(w) == views[w] # NULL /\ heap[views[w]].state = "live"

\* property_view::valid(): node_ != nullptr
valid(w) == views[w] # NULL

\* View w(&n), in place of a view that went out of scope.
ViewBind(w, n) ==
    /\ ~crashed
    /\ nodes[n].made
    /\ views' = [views EXCEPT ![w] = n]
    /\ last' = NCall("view_bind", NULL, NULL, 0, "none")
    /\ UNCHANGED <<Ownership, nodes, ext, cells, sp, crashed, regVars, threads>>

\* A move that copies the binding and leaves the source as it was.
exchange_copy(vw, dst, src) == [vw EXCEPT ![dst] = vw[src]]

\* node_ = std::exchange(other.node_, nullptr), this being dst and other src.
exchange(vw, dst, src) == [vw EXCEPT ![dst] = vw[src], ![src] = NULL]

\* The record of a move of the view src into the view dst.
MoveCall(op, dst, src) ==
    [op |-> op, node |-> NULL, view |-> dst, from |-> src, val |-> 0, err |-> "none"]

\* View dst(std::move(src)), in place of a view that went out of scope.
ViewMoveConstruct(dst, src) ==
    /\ ~crashed
    /\ dst # src
    /\ views' = exchange(views, dst, src)
    /\ last' = MoveCall("view_move_construct", dst, src)
    /\ UNCHANGED <<Ownership, nodes, ext, cells, sp, crashed, regVars, threads>>

\* dst = std::move(src)
ViewMoveAssign(dst, src) ==
    /\ ~crashed
    /\ views' = IF dst # src THEN exchange(views, dst, src) ELSE views
    /\ last' = MoveCall("view_move_assign", dst, src)
    /\ UNCHANGED <<Ownership, nodes, ext, cells, sp, crashed, regVars, threads>>

\* A checked access that asserts where it should throw.
Unbound_assert(op, w, v) ==
    /\ last' = NCall(op, NULL, w, 0, "abort")
    /\ crashed' = TRUE
    /\ UNCHANGED <<nodeVars, regVars, threads>>

\* A checked access to an unbound view throws std::runtime_error before it
\* uses the value passed.
Unbound(op, w, v) ==
    /\ last' = NCall(op, NULL, w, 0, "runtime_error")
    /\ UNCHANGED <<nodeVars, regVars, threads, crashed>>

\* An unchecked access to an unbound view: PROPERTYVIEW_ASSERT aborts, and
\* without the assertion the null node_ is dereferenced.
Asserted(op, w, v) ==
    /\ last' = NCall(op, NULL, w, 0, "abort")
    /\ crashed' = TRUE
    /\ UNCHANGED <<nodeVars, regVars, threads>>

\* w.get_checked()
ViewGetChecked(w) ==
    /\ ~crashed
    /\ IF views[w] = NULL THEN Unbound("get_checked", w, 0)
       ELSE Read("get_checked", views[w], w)

\* w.get()
ViewGet(w) ==
    /\ ~crashed
    /\ IF views[w] = NULL THEN Asserted("get", w, 0)
       ELSE Read("get", views[w], w)

\* w.set_checked(v)
ViewSetChecked(w, v) ==
    /\ ~crashed
    /\ IF views[w] = NULL THEN Unbound("set_checked", w, v)
       ELSE Write("set_checked", views[w], w, v)

\* w.set(v)
ViewSet(w, v) ==
    /\ ~crashed
    /\ IF views[w] = NULL THEN Asserted("set", w, v)
       ELSE Write("set", views[w], w, v)

\* w = v: operator=(Value&&) forwards to the unchecked set.
ViewAssign(w, v) ==
    /\ ~crashed
    /\ IF views[w] = NULL THEN Asserted("assign", w, v)
       ELSE Write("assign", views[w], w, v)

NodeNext ==
    \/ \E n \in PNodeIds, v \in Values, x \in ExtIds : Construct(n, v, x)
    \/ \E n \in PNodeIds : ConstructHandle(n)
    \/ \E v \in Values : MakeShared(v)
    \/ ResetSp
    \/ \E v \in Values : CellWrite(v)
    \/ \E x \in ExtIds, v \in Values : ExtWrite(x, v)
    \/ \E n \in PNodeIds : NodeGet(n)
    \/ \E n \in PNodeIds, v \in Values : NodeSet(n, v)
    \/ \E n \in PNodeIds : NodeSetHandle(n)
    \/ \E w \in ViewIds, n \in PNodeIds : ViewBind(w, n)
    \/ \E dst \in ViewIds, src \in ViewIds : ViewMoveConstruct(dst, src)
    \/ \E dst \in ViewIds, src \in ViewIds : ViewMoveAssign(dst, src)
    \/ \E w \in ViewIds : ViewGetChecked(w)
    \/ \E w \in ViewIds : ViewGet(w)
    \/ \E w \in ViewIds, v \in Values : ViewSetChecked(w, v)
    \/ \E w \in ViewIds, v \in Values : ViewSet(w, v)
    \/ \E w \in ViewIds, v \in Values : ViewAssign(w, v)

\* Nodes of one ownership policy, the views bound to them and the client's
\* variables and handle.
NodeSpec == NodeInit /\ [][NodeNext]_vars

-----------------------------------------------------------------------------
(* by_reference used as a storage of its own *)

\* In StorageSpec nodes[n] is a by_reference<int> object the client declares
\* itself, ptr being its public member, and ext[x] = 0 tells that the
\* variable x has gone out of scope.
StorageInit ==
    /\ Ownership = "by_reference"
    /\ nodes = [n \in PNodeIds |-> NoNode]
    /\ ext = [x \in ExtIds |-> 7]
    /\ cells = [c \in CellIds |-> 0]
    /\ sp = NULL
    /\ views = [w \in ViewIds |-> NULL]
    /\ crashed = FALSE
    /\ last = NCall("init", NULL, NULL, 0, "none")
    /\ Delimiter = ":"
    /\ exclusive = TRUE
    /\ data_ = [r \in Regs |-> {}]
    /\ heap = [n \in NodeIds |-> [state |-> "free", value |-> 0]]
    /\ held = NULL
    /\ NoThreads

\* The address is non-null and its referent is gone.
Dangling(n) == nodes[n].ptr # NULL /\ ext[nodes[n].ptr] = 0

\* ownership::by_reference<int> r(x)
StConstruct(n, x) ==
    /\ ~crashed
    /\ ~nodes[n].made
    /\ ext[x] # 0
    /\ nodes' = [nodes EXCEPT ![n] = [NoNode EXCEPT !.made = TRUE, !.ptr = x]]
    /\ last' = NCall("storage_construct", n, NULL, 0, "none")
    /\ UNCHANGED <<Ownership, ext, cells, sp, views, crashed, regVars, threads>>

\* r.ptr = nullptr: ptr is a public member.
StReset(n) ==
    /\ ~crashed
    /\ nodes[n].made
    /\ nodes[n].ptr # NULL
    /\ nodes' = [nodes EXCEPT ![n].ptr = NULL]
    /\ last' = NCall("storage_reset", n, NULL, 0, "none")
    /\ UNCHANGED <<Ownership, ext, cells, sp, views, crashed, regVars, threads>>

\* The variable x goes out of scope while storages may still refer to it.
ScopeEnd(x) ==
    /\ ~crashed
    /\ ext[x] # 0
    /\ ext' = [ext EXCEPT ![x] = 0]
    /\ last' = NCall("scope_end", NULL, NULL, 0, "none")
    /\ UNCHANGED <<Ownership, nodes, cells, sp, views, crashed, regVars, threads>>

\* x = v
StAssign(x, v) ==
    /\ ~crashed
    /\ ext[x] # 0
    /\ ext' = [ext EXCEPT ![x] = v]
    /\ last' = NCall("ext_write", NULL, NULL, v, "none")
    /\ UNCHANGED <<Ownership, nodes, cells, sp, views, crashed, regVars, threads>>

\* try { storage_traits<by_reference<int>>::get(r) } catch (std::runtime_error&).
\* Reading through the address of a variable that is gone is undefined: the
\* read returns whatever the memory holds, or the process ends.
StGet(n) ==
    /\ ~crashed
    /\ nodes[n].made
    /\ LET r == storage_get(Ownership, nodes[n], ext, cells)
       IN  IF ~Dangling(n)
           THEN /\ last' = NCall("storage_get", n, NULL, r.val, r.err)
                /\ UNCHANGED crashed
           ELSE \/ \E v \in Values :
                      /\ last' = NCall("storage_get", n, NULL, v, r.err)
                      /\ UNCHANGED crashed
                \/ /\ last' = NCall("storage_get", n, NULL, 0, "abort")
                   /\ crashed' = TRUE
    /\ UNCHANGED <<nodeVars, regVars, threads>>

\* try { storage_traits<by_reference<int>>::set(r, v) } catch (std::runtime_error&).
\* Writing through the address of a variable that is gone is undefined: the
\* write lands in memory no variable of the model owns, or the process ends.
StSet(n, v) ==
    /\ ~crashed
    /\ nodes[n].made
    /\ LET r == storage_set(Ownership, n, v, nodes, ext, cells)
       IN  IF ~Dangling(n)
           THEN /\ last' = NCall("storage_set", n, NULL, v, r.err)
                /\ ext' = r.ext
                /\ UNCHANGED crashed
           ELSE \/ /\ last' = NCall("storage_set", n, NULL, v, r.err)
                   /\ UNCHANGED <<ext, crashed>>
                \/ /\ last' = NCall("storage_set", n, NULL, v, "abort")
                   /\ crashed' = TRUE
                   /\ UNCHANGED ext
    /\ UNCHANGED <<Ownership, nodes, cells, sp, views, regVars, threads>>

StorageNext ==
    \/ \E n \in PNodeIds, x \in ExtIds : StConstruct(n, x)
    \/ \E n \in PNodeIds : StReset(n)
    \/ \E x \in ExtIds : ScopeEnd(x)
    \/ \E x \in ExtIds, v \in Values : StAssign(x, v)
    \/ \E n \in PNodeIds : StGet(n)
    \/ \E n \in PNodeIds, v \in Values : StSet(n, v)

\* by_reference storages the client declares and accesses through
\* storage_traits, catching what they throw.
StorageSpec == StorageInit /\ [][StorageNext]_vars

-----------------------------------------------------------------------------
(* by_reference nodes whose variables go out of scope *)

\* A read of node n, reached directly (w = NULL) or through view w.  The
\* address is what by_reference::get tests; reading through the address of a
\* variable that is gone is undefined: the read returns whatever the memory
\* holds, or the process ends.
RefRead(op, n, w) ==
    LET r == node_get(Ownership, nodes[n], ext, cells)
    IN  /\ IF r.err # "none"
           THEN /\ last' = NCall(op, n, w, 0, r.err)
                /\ crashed' = TRUE
           ELSE IF ~Dangling(n)
           THEN /\ last' = NCall(op, n, w, r.val, "none")
                /\ UNCHANGED crashed
           ELSE \/ \E v \in Values :
                      /\ last' = NCall(op, n, w, v, "none")
                      /\ UNCHANGED crashed
                \/ /\ last' = NCall(op, n, w, 0, "abort")
                   /\ crashed' = TRUE
        /\ UNCHANGED <<nodeVars, regVars, threads>>

\* A write of v to node n, directly or through view w.  Writing through the
\* address of a variable that is gone is undefined: the write lands in memory
\* no variable of the model owns, or the process ends.
RefWrite(op, n, w, v) ==
    LET r == node_set(Ownership, n, v, nodes, ext, cells)
    IN  /\ IF r.err # "none"
           THEN /\ last' = NCall(op, n, w, v, r.err)
                /\ crashed' = TRUE
                /\ UNCHANGED ext
           ELSE IF ~Dangling(n)
           THEN /\ last' = NCall(op, n, w, v, "none")
                /\ ext' = r.ext
                /\ UNCHANGED crashed
           ELSE \/ /\ last' = NCall(op, n, w, v, "none")
                   /\ UNCHANGED <<ext, crashed>>
                \/ /\ last' = NCall(op, n, w, v, "abort")
                   /\ crashed' = TRUE
                   /\ UNCHANGED ext
        /\ UNCHANGED <<Ownership, nodes, cells, sp, views, regVars, threads>>

\* n.get()
RefNodeGet(n) ==
    /\ ~crashed
    /\ nodes[n].made
    /\ RefRead("node_get", n, NULL)

\* n.set(v)
RefNodeSet(n, v) ==
    /\ ~crashed
    /\ nodes[n].made
    /\ RefWrite("node_set", n, NULL, v)

\* w.get_checked()
RefViewGetChecked(w) ==
    /\ ~crashed
    /\ IF views[w] = NULL THEN Unbound("get_checked", w, 0)
       ELSE RefRead("get_checked", views[w], w)

\* w.set_checked(v)
RefViewSetChecked(w, v) ==
    /\ ~crashed
    /\ IF views[w] = NULL THEN Unbound("set_checked", w, v)
       ELSE RefWrite("set_checked", views[w], w, v)

RefNext ==
    \/ \E n \in PNodeIds, v \in Values, x \in ExtIds : Construct(n, v, x)
    \/ \E x \in ExtIds : ScopeEnd(x)
    \/ \E x \in ExtIds, v \in Values : StAssign(x, v)
    \/ \E w \in ViewIds, n \in PNodeIds : ViewBind(w, n)
    \/ \E n \in PNodeIds : RefNodeGet(n)
    \/ \E n \in PNodeIds, v \in Values : RefNodeSet(n, v)
    \/ \E w \in ViewIds : RefViewGetChecked(w)
    \/ \E w \in ViewIds, v \in Values : RefViewSetChecked(w, v)

\* node<int, by_reference> objects constructed from int variables that may
\* go out of scope before the nodes do, and views of these nodes.
RefSpec == StorageInit /\ [][RefNext]_vars

-----------------------------------------------------------------------------
(* by_atomic under concurrent access *)

\* The threads that call get() on the node while one other thread calls set.
Readers == {1, 2}

\* The node the threads share.
Shared == 1

\* returns_reference<Ownership>: false for by_atomic only.
returns_reference(policy) == policy # "by_atomic"

\* A store that writes the two halves of the value one after the other.
atomic_store_halves(old, v) == << (v \div 16) * 16 + (old % 16), v >>

\* by_atomic::set(v): value.store(v, std::memory_order_relaxed).  The
\* contents the memory of the value takes, one per indivisible step.
atomic_store(old, v) == << v >>

\* node::get() for a value-returning policy: what the caller holds, a copy of
\* the value loaded or a reference to the storage.
get_result(policy, st, ex, cl) ==
    [taken |-> TRUE, ref |-> returns_reference(policy),
     val |-> node_get(policy, st, ex, cl).val]

\* In AtomicSpec threads.writer is the thread inside or between its calls of
\* set: pend are the stores its call has still to make, old and new the value
\* before the call and the value it passes.  threads.reader[r] is what the
\* reader r holds from its latest call of get.
AtomicInit ==
    /\ Ownership = "by_atomic"
    /\ \E v \in Values :
        LET st == make_value(Ownership, v, 1, [n \in PNodeIds |-> NoNode], NULL)
        IN  /\ nodes = [n \in PNodeIds |->
                          IF n = Shared
                          THEN [made |-> TRUE, value |-> st.value, ptr |-> st.ptr,
                                expect |-> v, via |-> "construct"]
                          ELSE NoNode]
            /\ threads = [writer |-> [pc |-> "idle", pend |-> <<>>,
                                      old |-> v, new |-> v],
                          reader |-> [r \in Readers |->
                                        [taken |-> FALSE, ref |-> FALSE, val |-> 0]]]
    /\ ext = [x \in ExtIds |-> 7]
    /\ cells = [c \in CellIds |-> 0]
    /\ sp = NULL
    /\ views = [w \in ViewIds |-> NULL]
    /\ crashed = FALSE
    /\ last = NCall("init", NULL, NULL, 0, "none")
    /\ Delimiter = ":"
    /\ exclusive = TRUE
    /\ data_ = [r \in Regs |-> {}]
    /\ heap = [n \in NodeIds |-> [state |-> "free", value |-> 0]]
    /\ held = NULL

\* The writer enters n.set(v).
SetCall(v) ==
    /\ threads.writer.pc = "idle"
    /\ threads' = [threads EXCEPT !.writer =
                     [pc |-> "set", pend |-> atomic_store(nodes[Shared].value, v),
                      old |-> nodes[Shared].value, new |-> v]]
    /\ last' = NCall("set_call", Shared, NULL, v, "none")
    /\ UNCHANGED <<Ownership, nodes, ext, cells, sp, views, crashed, regVars>>

\* One indivisible step of the writer's store.
Store ==
    /\ threads.writer.pc = "set"
    /\ threads.writer.pend # <<>>
    /\ nodes' = [nodes EXCEPT ![Shared].value = Head(threads.writer.pend)]
    /\ threads' = [threads EXCEPT !.writer.pend = Tail(@)]
    /\ last' = NCall("store", Shared, NULL, Head(threads.writer.pend), "none")
    /\ UNCHANGED <<Ownership, ext, cells, sp, views, crashed, regVars>>

\* The writer leaves n.set(v).
SetReturn ==
    /\ threads.writer.pc = "set"
    /\ threads.writer.pend = <<>>
    /\ threads' = [threads EXCEPT !.writer.pc = "idle",
                                  !.writer.old = threads.writer.new]
    /\ last' = NCall("set_return", Shared, NULL, threads.writer.new, "none")
    /\ UNCHANGED <<Ownership, nodes, ext, cells, sp, views, crashed, regVars>>

\* The reader r calls n.get(): one load, whose result r keeps.
Load(r) ==
    /\ LET g == get_result(Ownership, nodes[Shared], ext, cells)
       IN  /\ threads' = [threads EXCEPT !.reader[r] = g]
           /\ last' = NCall("atomic_get", Shared, NULL, g.val, "none")
    /\ UNCHANGED <<Ownership, nodes, ext, cells, sp, views, crashed, regVars>>

AtomicNext ==
    \/ \E v \in Values : SetCall(v)
    \/ Store
    \/ SetReturn
    \/ \E r \in Readers : Load(r)

\* One by_atomic node, one thread that sets it and the threads that get it.
AtomicSpec == AtomicInit /\ [][AtomicNext]_vars

-----------------------------------------------------------------------------
(* key_traits used on its own *)

\* The characters of the keys: a plain one and the two delimiters.
Chars == {"x", ":", ";"}

\* The strings of at most n characters.
RECURSIVE Strings(_)
Strings(n) ==
    IF n = 0 THEN {<<>>}
    ELSE Strings(n - 1) \cup {Append(s, c) : s \in Strings(n - 1), c \in Chars}

\* The fragments offered to merge(): the empty one and the single characters.
Fragments == Strings(1)

\* The lists of at most n fragments.
RECURSIVE FragmentLists(_)
FragmentLists(n) ==
    IF n = 0 THEN {<<>>}
    ELSE FragmentLists(n - 1)
            \cup {Append(l, f) : l \in FragmentLists(n - 1), f \in Fragments}

\* The record of a call of split or merge.
KeyCall(op, key, parts) == [op |-> op, key |-> key, parts |-> parts]

KeyInit ==
    /\ Delimiter \in Delimiters
    /\ exclusive = TRUE
    /\ data_ = [r \in Regs |-> {}]
    /\ heap = [n \in NodeIds |-> [state |-> "free", value |-> 0]]
    /\ held = NULL
    /\ crashed = FALSE
    /\ last = KeyCall("init", <<>>, <<>>)
    /\ NoNodes
    /\ NoThreads

\* key_traits<std::string, Delimiter>::split(key)
Split(key) ==
    /\ last' = KeyCall("split", key, split(key, Delimiter))
    /\ UNCHANGED <<regVars, nodeVars, threads, crashed>>

\* key_traits<std::string, Delimiter>::merge(args...)
Merge(args) ==
    /\ last' = KeyCall("merge", merge(args, Delimiter), args)
    /\ UNCHANGED <<regVars, nodeVars, threads, crashed>>

\* The record of a call of the one function on the result of the other:
\* out is what the second call returns, again what a further call of the
\* first returns on it.
TripCall(op, key, parts, out, again) ==
    [op |-> op, key |-> key, parts |-> parts, out |-> out, again |-> again]

\* parts = split(key); merge(parts[0], ..., parts[n-1])
SplitThenMerge(key) ==
    /\ LET parts == split(key, Delimiter)
           out == merge(parts, Delimiter)
       IN  last' = TripCall("split_merge", key, parts, out, split(out, Delimiter))
    /\ UNCHANGED <<regVars, nodeVars, threads, crashed>>

\* key = merge(args...); split(key), and the parts merged once more
MergeThenSplit(args) ==
    /\ LET key == merge(args, Delimiter)
           out == split(key, Delimiter)
       IN  last' = TripCall("merge_split", key, args, out, merge(out, Delimiter))
    /\ UNCHANGED <<regVars, nodeVars, threads, crashed>>

KeyNext ==
    \/ \E key \in Strings(MaxLen) : Split(key)
    \/ \E args \in FragmentLists(MaxFragments) : Merge(args)
    \/ \E key \in Strings(MaxLen) : SplitThenMerge(key)
    \/ \E args \in FragmentLists(MaxFragments) : MergeThenSplit(args)

\* Calls of split and of merge with one delimiter.
KeySpec == KeyInit /\ [][KeyNext]_vars

-----------------------------------------------------------------------------
(* One delimiter per type: key_traits and a registry of the same delimiter *)

\* key_traits<std::string, Delimiter>::delimiter()
delimiter == Delimiter

\* traits::delimiter()
GetDelimiter ==
    /\ last' = KeyCall("delimiter", <<delimiter>>, <<>>)
    /\ UNCHANGED <<regVars, nodeVars, threads, crashed>>

\* The client calls the static functions of the traits before it fills the
\* registry; they read nothing of it.
BeforeRegistry == data_[1] = {}

DelimNext ==
    \/ \E key \in Strings(MaxLen) : BeforeRegistry /\ Split(key)
    \/ \E args \in FragmentLists(MaxFragments) : BeforeRegistry /\ Merge(args)
    \/ GetDelimiter
    \/ \E args \in ArgLists, v \in Values : AddNew(args, v, FALSE)
    \/ \E key \in LookupKeys : Find(key)

\* The key composition of one delimiter and a registry that uses it.
DelimSpec == KeyInit /\ [][DelimNext]_vars

-----------------------------------------------------------------------------
(* Nodes of several value types and ownership policies, seen as node_base *)

\* The value types T the nodes are instantiated with.  A type is the
\* sequence of the names it is written with.
ValueTypes == {<<"int">>, <<"long">>}

\* The types typeid is asked about: the value types and the policy
\* storages Ownership<T>.
AllTypes ==
    << <<"int">>, <<"long">> >>
        \o << <<"by_value", "int">>, <<"by_value", "long">>,
              <<"by_reference", "int">>, <<"by_reference", "long">>,
              <<"by_shared", "int">>, <<"by_shared", "long">>,
              <<"by_atomic", "int">>, <<"by_atomic", "long">> >>

\* std::type_index(typeid(t)): one index per type.
typeid(t) == CHOOSE i \in 1..Len(AllTypes) : AllTypes[i] = t

\* A type index taken of the storage type Ownership<T>.
type_index_storage(T, policy) == typeid(<<policy>> \o T)

\* node<T, Ownership>::type_index{typeid(T)}, a static member of the class.
type_index(T, policy) == typeid(T)

\* node<T, Ownership>::underlying_type() of a node nd constructed as
\* node<nd.type, nd.kind>.
underlying_type(nd) == type_index(nd.type, nd.kind)

\* In TypedSpec every node carries the template arguments it was declared
\* with: type is T and kind is Ownership.
TypedInit ==
    /\ Ownership = "by_value"
    /\ nodes = [n \in PNodeIds |-> NoNode]
    /\ ext = [x \in ExtIds |-> 7]
    /\ cells = [c \in CellIds |-> 0]
    /\ sp = NULL
    /\ views = [w \in ViewIds |-> NULL]
    /\ crashed = FALSE
    /\ last = NCall("init", NULL, NULL, 0, "none")
    /\ Delimiter = ":"
    /\ exclusive = TRUE
    /\ data_ = [r \in Regs |-> {}]
    /\ heap = [n \in NodeIds |-> [state |-> "free", value |-> 0]]
    /\ held = NULL
    /\ NoThreads

\* The nodes whose ptr is a shared handle.
SharedNodes(nd) ==
    [m \in PNodeIds |-> IF nd[m].made /\ nd[m].kind = "by_shared" THEN nd[m] ELSE NoNode]

\* node<T, K> n(v), or node<T, by_reference> n(x)
TypedConstruct(n, T, K, v, x) ==
    /\ ~nodes[n].made
    /\ IF K = "by_reference" THEN v = ext[x] ELSE x = 1
    /\ K = "by_shared" => CellIds \ Owned(SharedNodes(nodes), NULL) # {}
    /\ LET st == make_value(K, v, x, SharedNodes(nodes), NULL)
       IN  /\ nodes' = [nodes EXCEPT ![n] =
                          [made |-> TRUE, value |-> st.value, ptr |-> st.ptr,
                           expect |-> v, via |-> "construct",
                           type |-> T, kind |-> K]]
           /\ cells' = IF K = "by_shared"
                       THEN [cells EXCEPT ![st.ptr] = st.cell] ELSE cells
    /\ last' = NCall("construct", n, NULL, v, "none")
    /\ UNCHANGED <<Ownership, ext, sp, views, crashed, regVars, threads>>

\* n.get(), or w.get() of a view bound to n
TypedGet(op, n, w) ==
    /\ nodes[n].made
    /\ w # NULL => views[w] = n
    /\ LET r == node_get(nodes[n].kind, nodes[n], ext, cells)
       IN  last' = NCall(op, n, w, r.val, r.err)
    /\ UNCHANGED <<nodeVars, regVars, threads, crashed>>

\* n.set(v), or w.set(v) of a view bound to n
TypedSet(op, n, w, v) ==
    /\ nodes[n].made
    /\ w # NULL => views[w] = n
    /\ LET r == node_set(nodes[n].kind, n, v, nodes, ext, cells)
       IN  /\ nodes' = r.nodes
           /\ ext' = r.ext
           /\ cells' = r.cells
           /\ last' = NCall(op, n, w, v, r.err)
    /\ UNCHANGED <<Ownership, sp, views, crashed, regVars, threads>>

\* node_base& b = n; b.underlying_type()
UnderlyingType(n) ==
    /\ nodes[n].made
    /\ last' = NCall("underlying_type", n, NULL, underlying_type(nodes[n]), "none")
    /\ UNCHANGED <<nodeVars, regVars, threads, crashed>>

TypedNext ==
    \/ \E n \in PNodeIds, T \in ValueTypes, K \in Policies, v \in Values, x \in ExtIds :
            TypedConstruct(n, T, K, v, x)
    \/ \E n \in PNodeIds : TypedGet("node_get", n, NULL)
    \/ \E n \in PNodeIds, w \in ViewIds : TypedGet("get", n, w)
    \/ \E n \in PNodeIds, v \in Values : TypedSet("node_set", n, NULL, v)
    \/ \E n \in PNodeIds, w \in ViewIds, v \in Values : TypedSet("set", n, w, v)
    \/ \E n \in PNodeIds : UnderlyingType(n)
    \/ \E w \in ViewIds, n \in PNodeIds : ViewBind(w, n)

\* Nodes of either value type and any ownership policy, their reads and
\* writes and the query of their value type.
TypedSpec == TypedInit /\ [][TypedNext]_vars

-----------------------------------------------------------------------------
(* Views bound to the nodes a registry owns *)

\* The record of a call made on view w: key is the key the view was bound
\* by, ptr the node the view is bound to after the call, flag what valid()
\* answered, val the value read.
BindCall(op, w, key, ptr, flag, val, err) ==
    [op |-> op, view |-> w, key |-> key, ptr |-> ptr, flag |-> flag,
     val |-> val, err |-> err]

\* View w(reg.find(key)), in place of a view that went out of scope: the
\* view keeps the raw pointer find returned, null when the key is absent.
BindFound(w, key) ==
    /\ ~crashed
    /\ views' = [views EXCEPT ![w] = find(data_[1], key)]
    /\ last' = BindCall("view_bind", w, key, find(data_[1], key), FALSE, 0, "none")
    /\ UNCHANGED <<Ownership, nodes, ext, cells, sp, crashed, regVars, threads>>

\* w.valid()
BindValid(w) ==
    /\ ~crashed
    /\ last' = BindCall("valid", w, <<>>, views[w], valid(w), 0, "none")
    /\ UNCHANGED <<nodeVars, regVars, threads, crashed>>

\* w.get_checked() on a view of a registry's node.  The view's pointer is
\* all that is tested: when the node was destroyed the read is of freed
\* memory, which yields any value or ends the program.
BindGetChecked(w) ==
    /\ ~crashed
    /\ UNCHANGED <<nodeVars, regVars, threads>>
    /\ IF views[w] = NULL
       THEN /\ last' = BindCall("get_checked", w, <<>>, views[w], FALSE, 0, "runtime_error")
            /\ UNCHANGED crashed
       ELSE IF heap[views[w]].state = "live"
       THEN /\ last' = BindCall("get_checked", w, <<>>, views[w], TRUE, heap[views[w]].value, "none")
            /\ UNCHANGED crashed
       ELSE \/ /\ \E v \in Values \cup {0} :
                      last' = BindCall("get_checked", w, <<>>, views[w], TRUE, v, "none")
               /\ UNCHANGED crashed
            \/ /\ last' = BindCall("get_checked", w, <<>>, views[w], TRUE, 0, "abort")
               /\ crashed' = TRUE

\* An empty registry and default-constructed views.
BindInit ==
    /\ Delimiter \in Delimiters
    /\ exclusive \in BOOLEAN
    /\ data_ = [r \in Regs |-> {}]
    /\ heap = [n \in NodeIds |-> [state |-> "free", value |-> 0]]
    /\ held = NULL
    /\ crashed = FALSE
    /\ last = Call("init", 0, <<>>, <<>>, NULL, NULL, FALSE, "none")
    /\ Ownership = "by_value"
    /\ nodes = <<>>
    /\ ext = <<>>
    /\ cells = <<>>
    /\ sp = NULL
    /\ views = [w \in ViewIds |-> NULL]
    /\ NoThreads

BindNext ==
    \/ \E args \in ArgLists, v \in Values : AddNew(args, v, FALSE)
    \/ \E key \in LookupKeys : Erase(key)
    \/ Clear
    \/ \E w \in ViewIds, key \in LookupKeys : BindFound(w, key)
    \/ \E dst \in ViewIds, src \in ViewIds : ViewMoveAssign(dst, src)
    \/ \E w \in ViewIds : BindValid(w)
    \/ \E w \in ViewIds : BindGetChecked(w)

\* One registry, and views constructed from the pointers its find returns.
BindSpec == BindInit /\ [][BindNext]_vars

-----------------------------------------------------------------------------
(* The registry's contract *)

\* The fragments written one after the other with one delimiter between
\* consecutive fragments.
RECURSIVE Joined(_, _)
Joined(args, d) ==
    IF Len(args) = 0 THEN <<>>
    ELSE IF Len(args) = 1 THEN args[1]
    ELSE args[1] \o <<d>> \o Joined(Tail(args), d)

\* The entries of map m under key.
EntriesAt(m, key) == {e \in m : e.key = key}

\* The pointer map m holds under key; NULL when it holds none.
Stored(m, key) ==
    IF EntriesAt(m, key) = {} THEN NULL ELSE (CHOOSE e \in EntriesAt(m, key) : TRUE).ptr

\* C1: after add(n, f1, ..., fk) with two or more fragments, find of the
\* fragments joined by the registry's delimiter returns n, and contains of
\* that key is true.
C1_AddThenFindMerged ==
    (last.op = "add" /\ Len(last.args) >= 2)
        => /\ find(data_[1], Joined(last.args, Delimiter)) = last.node
           /\ contains(data_[1], Joined(last.args, Delimiter))

C1_Witness ==
    /\ last.op = "add"
    /\ Len(last.args) = 3
    /\ last.node # NULL
    /\ Cardinality(data_[1]) = 2
    /\ find(data_[1], Joined(last.args, Delimiter)) = last.node

\* C2: add always overwrites.  When the registry holds an entry under the
\* key an add resolves to, the add signals no error, leaves exactly one
\* entry under that key, find of the key returns the added node, the number
\* of entries and every entry under another key are unchanged, and with
\* exclusive ownership the node held before is destroyed.
C2_AddOverwrites ==
    [][(last'.op = "add" /\ EntriesAt(data_[1], last'.key) # {})
        => /\ last'.err = "none"
           /\ ~crashed'
           /\ Cardinality(EntriesAt(data_'[1], last'.key)) = 1
           /\ find(data_'[1], last'.key) = last'.node
           /\ Cardinality(data_'[1]) = Cardinality(data_[1])
           /\ \A e \in data_[1] : e.key # last'.key => e \in data_'[1]
           /\ \A e \in data_'[1] : e.key # last'.key => e \in data_[1]
           /\ (exclusive /\ Stored(data_[1], last'.key) # NULL)
                => /\ heap[Stored(data_[1], last'.key)].state = "live"
                   /\ heap'[Stored(data_[1], last'.key)].state = "destroyed"]_vars

\* An add has replaced a node under exclusive ownership, next to another entry.
C2_Witness ==
    /\ last.op = "add"
    /\ last.flag
    /\ exclusive
    /\ last.ptr # NULL
    /\ last.node # NULL
    /\ heap[last.ptr].state = "destroyed"
    /\ Cardinality(data_[1]) = 2

\* C3: add with exactly one fragment f stores the node under the key f
\* verbatim, whatever f is (the empty string, a string that contains the
\* delimiter); so add(n2, "a:b") after add(n1, "a", "b") leaves find("a:b")
\* returning n2.
C3_SingleFragmentVerbatim ==
    (last.op = "add" /\ Len(last.args) = 1)
        => /\ last.key = last.args[1]
           /\ find(data_[1], last.args[1]) = last.node
           /\ Cardinality(EntriesAt(data_[1], last.args[1])) = 1

\* add(n2, "a:b") has replaced the entry of an earlier add under "a:b".
C3_Witness ==
    /\ last.op = "add"
    /\ last.args = << <<"a", ":", "b">> >>
    /\ Delimiter = ":"
    /\ last.flag
    /\ last.node # NULL
    /\ find(data_[1], <<"a", ":", "b">>) = last.node

\* add(n, "") has stored n under the empty key.
C3_WitnessEmptyKey ==
    /\ last.op = "add"
    /\ last.args = << <<>> >>
    /\ last.node # NULL
    /\ find(data_[1], <<>>) = last.node

\* The write through the reference at() returned is made to the node the
\* registry stores under the key, and at and find of the key give that node.
WriteIsToStoredNode ==
    (last'.op = "write" /\ last'.err = "none")
        => /\ data_' = data_
           /\ find(data_'[1], last'.key) = last'.node
           /\ at(data_'[1], last'.key).ref = last'.node
           /\ heap'[Stored(data_[1], last'.key)].value = last'.val

\* C4: at(key) fails with std::out_of_range exactly when no entry exists
\* under key, and leaves the registry unchanged; when an entry exists it
\* returns a reference to the stored node itself, a live node, so that a
\* write through the reference is what at and find of the same key read
\* afterwards.
C4_AtChecked ==
    [][/\ last'.op = "at"
          => /\ (last'.err = "out_of_range") <=> (EntriesAt(data_[1], last'.key) = {})
             /\ data_' = data_ /\ heap' = heap /\ held' = held
             /\ EntriesAt(data_[1], last'.key) # {}
                  => /\ last'.err = "none"
                     /\ ~crashed'
                     /\ last'.ptr # NULL
                     /\ last'.ptr = Stored(data_[1], last'.key)
                     /\ heap[last'.ptr].state = "live"
       /\ WriteIsToStoredNode]_vars

\* at(key) has been called on an entry that holds an empty pointer, and
\* has either ended the process or returned a reference to no node.
C4_AtOfEmptyEntry ==
    /\ last.op = "at"
    /\ EntriesAt(data_[1], last.key) # {}
    /\ Stored(data_[1], last.key) = NULL
    /\ last.ptr = NULL
    /\ last.err \in {"none", "abort"}

\* What holds of at(): the same statement for the entries that store a node.
C4_AtOfStoredNode ==
    [][/\ last'.op = "at"
          => /\ (last'.err = "out_of_range") <=> (EntriesAt(data_[1], last'.key) = {})
             /\ data_' = data_ /\ heap' = heap /\ held' = held
             /\ Stored(data_[1], last'.key) # NULL
                  => /\ last'.err = "none"
                     /\ last'.ptr = Stored(data_[1], last'.key)
                     /\ ~crashed'
       /\ WriteIsToStoredNode]_vars

\* A write through the reference at() returned has changed the stored node.
C4_Witness ==
    /\ last.op = "write"
    /\ last.err = "none"
    /\ last.val = 42
    /\ heap[find(data_[1], last.key)].value = 42

\* at() has thrown std::out_of_range on a registry that holds entries.
C4_WitnessThrow ==
    /\ last.op = "at"
    /\ last.err = "out_of_range"
    /\ data_[1] # {}

\* C5: find(key) and contains(key) never fail and never modify the
\* registry: find returns null for a key with no entry and the stored
\* pointer otherwise, contains tells whether an entry exists, and the
\* entries and the nodes are the same before and after the call.
C5_FindContainsPure ==
    [][last'.op \in {"find", "contains"}
        => /\ last'.err = "none"
           /\ ~crashed'
           /\ data_' = data_ /\ heap' = heap /\ held' = held
           /\ last'.op = "find" => last'.ptr = Stored(data_[1], last'.key)
           /\ last'.op = "contains" => (last'.flag <=> EntriesAt(data_[1], last'.key) # {})]_vars

\* find has returned a stored node while another key is also present.
C5_Witness ==
    /\ last.op = "find"
    /\ last.ptr # NULL
    /\ Cardinality(data_[1]) = 2
    /\ heap[last.ptr].state = "live"

\* find has returned null on the empty registry.
C5_WitnessEmpty ==
    /\ last.op = "find"
    /\ last.ptr = NULL
    /\ data_[1] = {}

\* C6: erase(key) returns true iff an entry existed under exactly key;
\* afterwards contains(key) is false and every entry under another key is
\* unchanged; on an absent key it returns false and changes nothing.
C6_Erase ==
    [][last'.op = "erase"
        => /\ last'.flag <=> (EntriesAt(data_[1], last'.key) # {})
           /\ ~contains(data_'[1], last'.key)
           /\ \A e \in data_[1] : e.key # last'.key => e \in data_'[1]
           /\ \A e \in data_'[1] : e \in data_[1]
           /\ ~last'.flag => (data_' = data_ /\ heap' = heap /\ held' = held)]_vars

\* erase has removed one of two entries.
C6_Witness ==
    /\ last.op = "erase"
    /\ last.flag
    /\ Cardinality(data_[1]) = 1

\* erase has returned false on a registry that holds an entry.
C6_WitnessAbsent ==
    /\ last.op = "erase"
    /\ ~last.flag
    /\ data_[1] # {}

\* C7: after clear() the map is empty, contains(k) is false and find(k) is
\* null for every key k, and every node the registry owned exclusively is
\* destroyed.
C7_Clear ==
    [][last'.op = "clear"
        => /\ data_'[1] = {}
           /\ \A k \in Keys : ~contains(data_'[1], k) /\ find(data_'[1], k) = NULL
           /\ exclusive
                => \A e \in data_[1] :
                      e.ptr # NULL => /\ heap[e.ptr].state = "live"
                                      /\ heap'[e.ptr].state = "destroyed"]_vars

\* clear() has destroyed the two nodes an exclusive registry held.
C7_Witness ==
    /\ last.op = "clear"
    /\ exclusive
    /\ data_[1] = {}
    /\ heap[1].state = "destroyed"
    /\ heap[2].state = "destroyed"

C8_WitnessConstruct ==
    /\ last.op = "move_construct"
    /\ \E e \in data_[last.reg] : e.ptr # NULL /\ heap[e.ptr].value = 42

-----------------------------------------------------------------------------
(* The node's and the view's contract *)

ReadOps == {"node_get", "get_checked", "get"}

\* The last call read a node whose storage was last set the way route says.
ReadAfter(routes) ==
    /\ last.op \in ReadOps
    /\ last.node # NULL
    /\ nodes[last.node].via \in routes

\* C9: for each of the four ownership policies and every value v, a node
\* constructed with v (from the value, from the variable that holds v, from
\* the handle of the cell that holds v) and read by get() before anything
\* wrote its storage yields v, and the read does not fail.
C9_ConstructThenGet ==
    (last.op = "node_get" /\ ReadAfter({"construct"}))
        => /\ last.err = "none"
           /\ ~crashed
           /\ last.val = nodes[last.node].expect

C9_Witness ==
    /\ Ownership = "by_shared"
    /\ last.op = "node_get"
    /\ ReadAfter({"construct"})
    /\ last.val = 42
    /\ nodes[last.node].ptr # sp

C9_WitnessByValue ==
    Ownership = "by_value" /\ last.op = "node_get" /\ ReadAfter({"construct"}) /\ last.val = 42

C9_WitnessByReference ==
    Ownership = "by_reference" /\ last.op = "node_get" /\ ReadAfter({"construct"}) /\ last.val = 42

C9_WitnessByAtomic ==
    Ownership = "by_atomic" /\ last.op = "node_get" /\ ReadAfter({"construct"}) /\ last.val = 42

C9_WitnessHandle ==
    /\ Ownership = "by_shared"
    /\ last.op = "node_get"
    /\ ReadAfter({"construct"})
    /\ nodes[last.node].ptr = sp

\* A read of a node that was last written v2, by node::set or through a view,
\* yields v2 and does not fail, whichever of the three reads it is.
ReadYieldsWritten ==
    ReadAfter({"set"})
        => /\ last.err = "none"
           /\ ~crashed
           /\ last.val = nodes[last.node].expect

\* A checked read and an unchecked read of the same bound view, one right
\* after the other.
ReadsOfOneView ==
    /\ {last.op, last'.op} = {"get_checked", "get"}
    /\ last.view # NULL
    /\ last'.view = last.view
    /\ last.node # NULL

\* C10: for every ownership policy and every bound view, after a write of v2
\* by node::set, set_checked, the unchecked set or view = v2, the next read
\* yields v2 through node::get, get_checked and the unchecked get alike, and
\* a checked and an unchecked read of a bound view agree.
C10_WriteThenRead ==
    [][/\ ReadYieldsWritten'
       /\ ReadsOfOneView => (last'.err = "none" /\ last'.val = last.val)]_vars

C10_Witness ==
    /\ Ownership = "by_reference"
    /\ last.op = "get_checked"
    /\ ReadAfter({"set"})
    /\ last.val = 42
    /\ ext[nodes[last.node].ptr] = 42

C10_WitnessNodeSet ==
    Ownership = "by_shared" /\ last.op = "get" /\ ReadAfter({"set"}) /\ last.val = 42

C10_WitnessNodeGet ==
    Ownership = "by_atomic" /\ last.op = "node_get" /\ ReadAfter({"set"}) /\ last.val = 42

C10_WitnessByValue ==
    Ownership = "by_value" /\ last.op = "get" /\ ReadAfter({"set"}) /\ last.val = 42

-----------------------------------------------------------------------------
(* The ownership policies' contract *)

WriteOps == {"node_set", "set_checked", "set", "assign"}

\* What get() on node m returns now.
Got(m) == node_get(Ownership, nodes[m], ext, cells).val

\* The nodes that exist and hold a non-empty handle or address.
Bound == {m \in PNodeIds : nodes[m].made /\ nodes[m].ptr # NULL}

\* The node the step has constructed.
Made == {m \in PNodeIds : ~nodes[m].made /\ nodes'[m].made}

\* C11: Shared storage aliasing.  A node constructed from a handle shares
\* the cell of every node constructed from that handle; after a set(value)
\* on one of them, or a write through the handle, get() on each of them
\* returns the value just written, and it keeps returning it until the next
\* write to the cell; a node constructed from a raw value gets a fresh cell
\* that no other node and no handle points to, so that a write to one cell
\* changes what the nodes of no other cell return.
C11_SharedAliasing ==
    [][Ownership = "by_shared" =>
        /\ (last'.op \in WriteOps /\ last'.err = "none")
             => \A m \in Bound :
                   Got(m)' = IF nodes[m].ptr = nodes[last'.node].ptr
                             THEN last'.val ELSE Got(m)
        /\ last'.op = "cell_write"
             => \A m \in Bound :
                   Got(m)' = IF nodes[m].ptr = sp THEN last'.val ELSE Got(m)
        /\ (last'.op = "construct_handle" /\ sp # NULL)
             => \A n \in Made :
                   /\ nodes'[n].ptr = sp
                   /\ Got(n)' = cells[sp]
                   /\ \A m \in Bound : nodes[m].ptr = sp => Got(m)' = Got(n)'
        /\ last'.op = "construct"
             => \A n \in Made :
                   /\ nodes'[n].ptr # NULL
                   /\ nodes'[n].ptr # sp
                   /\ \A m \in Bound : nodes[m].ptr # nodes'[n].ptr /\ Got(m)' = Got(m)
        /\ last'.op \notin WriteOps \cup {"cell_write"}
             => \/ (nodes' = nodes /\ cells' = cells)
                \/ \A m \in Bound : nodes'[m].ptr = nodes[m].ptr => Got(m)' = Got(m)]_vars

\* Two nodes share a cell; the one was set to 42 and the other has been
\* read and has returned 42.
C11_Witness ==
    /\ Ownership = "by_shared"
    /\ last.op = "node_get"
    /\ last.val = 42
    /\ \E m \in PNodeIds :
          /\ m # last.node
          /\ nodes[m].made
          /\ nodes[m].ptr = nodes[last.node].ptr
          /\ nodes[m].via = "set"
          /\ nodes[m].expect = 42

\* A node was constructed from a raw value next to a node of the handle's cell.
C11_WitnessFresh ==
    /\ Ownership = "by_shared"
    /\ last.op = "construct"
    /\ sp # NULL
    /\ \E m \in PNodeIds, n \in PNodeIds :
          /\ nodes[m].made /\ nodes[n].made
          /\ nodes[m].ptr = sp
          /\ nodes[n].ptr \notin {NULL, sp}
          /\ cells[nodes[n].ptr] # cells[sp]

\* What a set on a Shared node may change: the value in the cell the node's
\* handle points to, and no handle.
ThroughPointee ==
    /\ \A m \in PNodeIds : nodes[m].made => nodes'[m].ptr = nodes[m].ptr
    /\ \A c \in CellIds :
          (last'.node # NULL /\ c # nodes[last'.node].ptr) => cells'[c] = cells[c]
    /\ sp' = sp

\* C12: for Shared storage every set acts through the pointee.  Whatever
\* argument node::set is given, a value or a shared_ptr, it changes only the
\* value in the cell the node's handle already points to and changes the
\* handle of no node, so the nodes that share a cell are the same before and
\* after every set.
C12_SetThroughPointee ==
    [][(Ownership = "by_shared" /\ last'.op \in WriteOps \cup {"node_set_handle"})
        => ThroughPointee]_vars

\* What holds of set: the same statement for a set that is given a value.
C12_SetOfValue ==
    [][(Ownership = "by_shared" /\ last'.op \in WriteOps) => ThroughPointee]_vars

\* node::set was given a shared_ptr, and of two nodes one points to the
\* handle's cell and the other to another cell.
C12_HandleReplaced ==
    /\ Ownership = "by_shared"
    /\ last.op = "node_set_handle"
    /\ sp # NULL
    /\ \E m \in Bound, n \in Bound : nodes[m].ptr = sp /\ nodes[n].ptr # sp

\* The last call was a read of a node that returned normally.
HasRead == last.op \in ReadOps /\ last.node # NULL /\ last.err = "none"

\* C13: External-Reference storage aliases the caller's variable.  Every
\* get() returns the current value of the variable the node refers to;
\* after the variable was assigned directly, without set, get() of every
\* node that refers to it returns the assigned value; a set on the node
\* changes that variable itself, and no other.
C13_ReferenceAliasing ==
    [][Ownership = "by_reference" =>
        /\ HasRead' => last'.val = ext'[nodes'[last'.node].ptr]
        /\ \A m \in Bound : Got(m)' = ext'[nodes'[m].ptr]
        /\ last'.op = "ext_write"
             => \E x \in ExtIds :
                   /\ ext' = [ext EXCEPT ![x] = last'.val]
                   /\ \A m \in Bound : nodes[m].ptr = x => Got(m)' = last'.val
        /\ (last'.op \in WriteOps /\ last'.err = "none")
             => /\ ext' = [ext EXCEPT ![nodes[last'.node].ptr] = last'.val]
                /\ nodes'[last'.node].ptr = nodes[last'.node].ptr]_vars

\* The variable was assigned 42 directly, and get() of the node that refers
\* to it has returned 42.
C13_Witness ==
    /\ Ownership = "by_reference"
    /\ last.op = "node_get"
    /\ last.val = 42
    /\ \A m \in PNodeIds : nodes[m].via # "set"

\* A set through a view has changed the variable the node refers to.
C13_WitnessSet ==
    /\ Ownership = "by_reference"
    /\ last.op = "set_checked"
    /\ last.err = "none"
    /\ ext[nodes[last.node].ptr] = 42
    /\ \E x \in ExtIds : ext[x] = 7

\* C14: External-Reference storage get and set fail with std::runtime_error
\* exactly when the stored address is null; the failure reaches the caller,
\* who can go on, and nothing has been written; when the address is non-null
\* they dereference it, whether or not the variable still exists: get
\* returns the variable's value and set assigns it while it exists.
C14_DanglingReference ==
    [][last'.op \in {"storage_get", "storage_set"} =>
        /\ (last'.err = "runtime_error") <=> (nodes[last'.node].ptr = NULL)
        /\ last'.err = "runtime_error"
             => /\ ~crashed'
                /\ ext' = ext /\ nodes' = nodes /\ cells' = cells
        /\ (nodes[last'.node].ptr # NULL /\ ~Dangling(last'.node))
             => /\ last'.err = "none"
                /\ ~crashed'
                /\ last'.op = "storage_get" => last'.val = ext[nodes[last'.node].ptr]
                /\ last'.op = "storage_set"
                     => ext' = [ext EXCEPT ![nodes[last'.node].ptr] = last'.val]]_vars

\* A set on a storage whose address is null has thrown, next to a storage
\* that refers to a variable.
C14_Witness ==
    /\ last.op = "storage_set"
    /\ last.err = "runtime_error"
    /\ ~crashed
    /\ nodes[last.node].ptr = NULL
    /\ \E m \in Bound : ext[nodes[m].ptr] = 42

\* A get through the address of a variable that is gone has returned.
C14_WitnessNoLifetimeCheck ==
    /\ last.op = "storage_get"
    /\ last.err = "none"
    /\ Dangling(last.node)


\* What the reader r holds now: its copy, or the storage its reference names.
Holds(r) ==
    IF threads.reader[r].ref THEN nodes[Shared].value ELSE threads.reader[r].val

\* C15: every get() of a by_atomic node made while another thread sets it
\* returns the whole value from before the set or the whole value the set
\* passes, and what the reader got is a copy that no later store changes.
C15_AtomicNeverTorn ==
    [][/\ last'.op = "atomic_get" =>
            last'.val \in {threads.writer.old, threads.writer.new}
       /\ \A r \in Readers :
            (threads.reader[r].taken /\ threads'.reader[r] = threads.reader[r])
                => Holds(r)' = Holds(r)]_vars

\* A get made between the call of set and its store returned the old value.
C15_Witness ==
    /\ last.op = "atomic_get"
    /\ threads.writer.pc = "set"
    /\ threads.writer.pend # <<>>
    /\ threads.writer.old # threads.writer.new
    /\ last.val = threads.writer.old

\* A get made after the store and before set returned gave the new value,
\* while the other reader still holds its copy of the old one.
C15_WitnessNew ==
    /\ last.op = "atomic_get"
    /\ threads.writer.pc = "set"
    /\ threads.writer.pend = <<>>
    /\ threads.writer.old # threads.writer.new
    /\ last.val = threads.writer.new
    /\ \E r \in Readers : threads.reader[r].taken /\ Holds(r) = threads.writer.old


-----------------------------------------------------------------------------
(* The view's binding *)

\* The accesses a view offers to the value of its node.
ViewAccessOps == {"get", "set", "get_checked", "set_checked", "assign"}

\* The views bound to a node that was constructed.
BoundViews == {w \in ViewIds : views[w] \in PNodeIds /\ nodes[views[w]].made}

\* C16: valid() is true exactly of the views bound to a node: no default-
\* constructed view is valid, a view constructed from the address of a node is
\* valid, and no get, set, get_checked, set_checked or assignment of a value,
\* completed or failed, changes what valid() answers for any view.
C16_ValidIffBound ==
    /\ \A w \in ViewIds : ~valid(w)
    /\ [](\A w \in ViewIds : valid(w) <=> w \in BoundViews)
    /\ [][/\ last'.op = "view_bind" =>
                \E w \in ViewIds :
                    /\ valid(w)'
                    /\ \A u \in ViewIds \ {w} : views'[u] = views[u]
          /\ last'.op \in ViewAccessOps =>
                \A w \in ViewIds : valid(w)' = valid(w)]_vars

\* A bound view stayed valid over an assignment of a value, next to a view
\* that is still as it was default-constructed.
C16_Witness ==
    /\ last.op = "assign"
    /\ last.err = "none"
    /\ valid(last.view)
    /\ \E u \in ViewIds : ~valid(u)

\* An unbound view stayed invalid over a get_checked that threw.
C16_WitnessUnbound ==
    /\ last.op = "get_checked"
    /\ last.err = "runtime_error"
    /\ ~valid(last.view)


ViewMoveOps == {"view_move_construct", "view_move_assign"}

\* What a read through a view bound to node m yields now.
ReadsThrough(m) == node_get(Ownership, nodes[m], ext, cells)

\* The move of a bound view src into dst left src invalid and dst bound to
\* the node src was bound to, reading what src read.
Transferred(dst, src) ==
    /\ ~valid(src)'
    /\ valid(dst)'
    /\ views'[dst] = views[src]
    /\ ReadsThrough(views[dst])' = ReadsThrough(views[src])

\* C17: after a move construction or a move assignment of a bound view, the
\* source is invalid and the destination is valid, bound to exactly the node
\* the source was bound to and reading the same value.
C17_MoveTransfersBinding ==
    [][\A dst, src \in ViewIds :
        (last'.op \in ViewMoveOps /\ last'.view = dst /\ last'.from = src
            /\ valid(src))
            => Transferred(dst, src)]_vars

\* C17 as amended: a move into another view transfers the binding, bound or
\* not, and touches no third view; a view move-assigned to itself is left as
\* it was.
C17_MoveToAnotherView ==
    [][\A dst, src \in ViewIds :
        (last'.op \in ViewMoveOps /\ last'.view = dst /\ last'.from = src) =>
            IF dst = src THEN views' = views
            ELSE /\ valid(src) => Transferred(dst, src)
                 /\ ~valid(src) => (~valid(src)' /\ ~valid(dst)')
                 /\ \A u \in ViewIds \ {dst, src} : views'[u] = views[u]]_vars

\* A bound view was moved into another view.
C17_Witness ==
    /\ last.op \in ViewMoveOps
    /\ last.view # last.from
    /\ valid(last.view)
    /\ ~valid(last.from)
    /\ nodes[views[last.view]].made

\* A bound view was move-assigned to itself and is still bound.
C17_WitnessSelf ==
    /\ last.op = "view_move_assign"
    /\ last.view = last.from
    /\ valid(last.from)


\* The storage of every node: what it holds, apart from the bookkeeping.
Storages(nd) == [m \in PNodeIds |-> [made |-> nd[m].made, value |-> nd[m].value,
                                     ptr |-> nd[m].ptr]]

\* C18: get_checked() and set_checked(v) on an unbound view throw
\* std::runtime_error under every policy, change no node, no variable and no
\* pointee, and leave every view as it was; on a bound view they yield and
\* change exactly what get() and set(v) of the bound node yield and change.
C18_CheckedAccess ==
    [][\A w \in ViewIds :
        (last'.op \in {"get_checked", "set_checked"} /\ last'.view = w) =>
            IF ~valid(w)
            THEN /\ last'.err = "runtime_error"
                 /\ ~crashed'
                 /\ last'.node = NULL
                 /\ nodes' = nodes
                 /\ ext' = ext /\ cells' = cells /\ sp' = sp
                 /\ views' = views
            ELSE /\ last'.node = views[w]
                 /\ views' = views
                 /\ IF last'.op = "get_checked"
                    THEN LET r == node_get(Ownership, nodes[views[w]], ext, cells)
                         IN  /\ last'.err = r.err
                             /\ last'.val = r.val
                             /\ crashed' = (r.err # "none")
                             /\ nodes' = nodes
                             /\ ext' = ext /\ cells' = cells
                    ELSE LET r == node_set(Ownership, views[w], last'.val,
                                           nodes, ext, cells)
                         IN  /\ last'.err = r.err
                             /\ crashed' = (r.err # "none")
                             /\ Storages(nodes') = Storages(r.nodes)
                             /\ ext' = r.ext /\ cells' = r.cells]_vars

\* set_checked on an unbound view threw, next to a node that holds a value.
C18_Witness ==
    /\ last.op = "set_checked"
    /\ last.err = "runtime_error"
    /\ ~valid(last.view)
    /\ ~crashed
    /\ \E m \in PNodeIds : nodes[m].made

\* get_checked on a bound view returned what its node holds.
C18_WitnessBound ==
    /\ last.op = "get_checked"
    /\ last.err = "none"
    /\ valid(last.view)
    /\ last.node = views[last.view]
    /\ last.val = ReadsThrough(last.node).val
    /\ last.val # 0


-----------------------------------------------------------------------------
(* The key composition's contract *)

\* The number of characters of s that are the character c.
Occurrences(s, c) == Cardinality({i \in 1..Len(s) : s[i] = c})

\* C19: split(key) returns, in order, the substrings of key between the
\* delimiters, none collapsed: the result is never empty, has one part more
\* than key has delimiters, no part holds a delimiter, the parts joined by the
\* delimiter are key again, and split("") == [""], split(":x") == ["", "x"]
\* and split("x:") == ["x", ""].
C19_SplitAtEveryDelimiter ==
    last.op = "split" =>
        /\ Len(last.parts) >= 1
        /\ Len(last.parts) = Occurrences(last.key, Delimiter) + 1
        /\ \A i \in 1..Len(last.parts) :
                Occurrences(last.parts[i], Delimiter) = 0
        /\ Joined(last.parts, Delimiter) = last.key
        /\ last.key = <<>> => last.parts = << <<>> >>
        /\ last.key = <<Delimiter, "x">> => last.parts = << <<>>, <<"x">> >>
        /\ last.key = <<"x", Delimiter>> => last.parts = << <<"x">>, <<>> >>

\* A key with two adjacent delimiters was split into three parts.
C19_Witness ==
    /\ last.op = "split"
    /\ last.key = <<"x", Delimiter, Delimiter>>
    /\ last.parts = << <<"x">>, <<>>, <<>> >>

\* The empty key was split into the one empty part.
C19_WitnessEmpty ==
    /\ last.op = "split"
    /\ last.key = <<>>
    /\ last.parts = << <<>> >>


\* The number of delimiters the fragments of a list hold together.
RECURSIVE Contributed(_, _)
Contributed(args, d) ==
    IF args = <<>> THEN 0
    ELSE Occurrences(Head(args), d) + Contributed(Tail(args), d)

\* The number of characters the fragments of a list hold together.
RECURSIVE TotalLen(_)
TotalLen(args) == IF args = <<>> THEN 0 ELSE Len(Head(args)) + TotalLen(Tail(args))

\* C20: merge(f1, ..., fn) is the fragments in order with one delimiter
\* between each two neighbours and none added at either end: no fragment
\* yields the empty string, one fragment yields itself, and an empty last
\* fragment leaves the delimiter before it at the end, as in
\* merge("x", "x", "") == "x:x:".
C20_MergeJoins ==
    last.op = "merge" =>
        LET n == Len(last.parts)
        IN  /\ last.key = Joined(last.parts, Delimiter)
            /\ n = 0 => last.key = <<>>
            /\ n = 1 => last.key = last.parts[1]
            /\ n >= 1 =>
                /\ Len(last.key) = TotalLen(last.parts) + (n - 1)
                /\ Occurrences(last.key, Delimiter)
                        = Contributed(last.parts, Delimiter) + (n - 1)
                /\ SubSeq(last.key, 1, Len(last.parts[1])) = last.parts[1]
                /\ SubSeq(last.key, Len(last.key) - Len(last.parts[n]) + 1,
                          Len(last.key)) = last.parts[n]
            /\ last.parts = << <<"x">>, <<"x">>, <<>> >>
                    => last.key = <<"x", Delimiter, "x", Delimiter>>

\* Three fragments, the last one empty, were merged.
C20_Witness ==
    /\ last.op = "merge"
    /\ last.parts = << <<"x">>, <<"x">>, <<>> >>
    /\ last.key = <<"x", Delimiter, "x", Delimiter>>

\* No fragment was merged into the empty string.
C20_WitnessNone ==
    /\ last.op = "merge"
    /\ last.parts = <<>>
    /\ last.key = <<>>

\* One fragment, which is a delimiter, was merged into itself.
C20_WitnessOne ==
    /\ last.op = "merge"
    /\ last.parts = << <<Delimiter>> >>
    /\ last.key = <<Delimiter>>


\* The fragments of a list hold no delimiter.
DelimiterFree(args, d) == Contributed(args, d) = 0

\* C21: for every key k, the fragments split(k) returns, merged, are k again;
\* and for fragments that hold no delimiter, merge(split(merge(f1, ..., fn)))
\* is merge(f1, ..., fn).
C21_KeyRoundTrip ==
    /\ last.op = "split_merge" => last.out = last.key
    /\ (last.op = "merge_split" /\ DelimiterFree(last.parts, Delimiter))
            => last.again = last.key

\* A key that starts with two delimiters was split in three and merged back.
C21_Witness ==
    /\ last.op = "split_merge"
    /\ last.key = <<Delimiter, Delimiter, "x">>
    /\ last.parts = << <<>>, <<>>, <<"x">> >>
    /\ last.out = last.key

\* Two fragments without a delimiter were merged, split and merged again.
C21_WitnessFragments ==
    /\ last.op = "merge_split"
    /\ last.parts = << <<"x">>, <<"x">> >>
    /\ last.again = <<"x", Delimiter, "x">>


\* split(merge(f1, ..., fn)) gave the fragments back if none of them holds a
\* delimiter, and more fragments than were merged otherwise.
SplitInvertsMerge ==
    IF DelimiterFree(last.parts, Delimiter)
    THEN last.out = last.parts
    ELSE Len(last.out) > Len(last.parts)

\* C22: for every sequence of fragments f1..fn none of which holds the
\* delimiter, split(merge(f1, ..., fn)) is exactly [f1, ..., fn]; when a
\* fragment holds the delimiter the result has more fragments than were
\* merged.
C22_SplitInvertsMerge ==
    last.op = "merge_split" => SplitInvertsMerge

\* C22 as amended: the same of every sequence of at least one fragment, while
\* the merge of no fragment is the empty key, which split returns as the one
\* empty fragment.
C22_SplitInvertsMergeOfSome ==
    last.op = "merge_split" =>
        IF Len(last.parts) >= 1 THEN SplitInvertsMerge
        ELSE last.key = <<>> /\ last.out = << <<>> >>

\* Three fragments without a delimiter, one of them empty, came back.
C22_Witness ==
    /\ last.op = "merge_split"
    /\ last.parts = << <<"x">>, <<>>, <<"x">> >>
    /\ last.key = <<"x", Delimiter, Delimiter, "x">>
    /\ last.out = last.parts

\* A fragment that is a delimiter came back as two empty fragments.
C22_WitnessEmbedded ==
    /\ last.op = "merge_split"
    /\ last.parts = << <<Delimiter>> >>
    /\ last.out = << <<>>, <<>> >>

\* No fragment was merged, and the split returned one.
C22_WitnessNone ==
    /\ last.op = "merge_split"
    /\ last.parts = <<>>
    /\ last.out = << <<>> >>


\* The delimiter of the other key-composition type.
OtherDelimiters == Delimiters \ {Delimiter}

\* C23: the delimiter is fixed per type.  With delimiter d, merge and a
\* registry's add of several fragments join with d and add no other
\* delimiter; split cuts at every d and nowhere else, the other type's
\* delimiter staying inside the parts; find looks the key up as it is given,
\* so that with ';' the entry of add(n, "a", "b") is "a;b" and is not found
\* as "a:b"; and delimiter() returns d.
C23_DelimiterPerType ==
    /\ delimiter \in Delimiters
    /\ last.op = "delimiter" => last.key = <<Delimiter>>
    /\ last.op = "merge" =>
            /\ last.key = Joined(last.parts, Delimiter)
            /\ \A e \in OtherDelimiters :
                    Occurrences(last.key, e) = Contributed(last.parts, e)
    /\ last.op = "split" =>
            /\ Len(last.parts) = Occurrences(last.key, Delimiter) + 1
            /\ Contributed(last.parts, Delimiter) = 0
            /\ \A e \in OtherDelimiters :
                    Contributed(last.parts, e) = Occurrences(last.key, e)
    /\ (last.op = "add" /\ Len(last.args) >= 2) =>
            /\ last.key = Joined(last.args, Delimiter)
            /\ find(data_[1], last.key) = last.node
            /\ \A e \in OtherDelimiters :
                    Occurrences(last.key, e) = Contributed(last.args, e)
    /\ last.op = "find" => last.ptr = Stored(data_[1], last.key)
    /\ (Delimiter = ";" /\ {e.key : e \in data_[1]} = {<<"a", ";", "b">>})
            => find(data_[1], <<"a", ":", "b">>) = NULL

\* With ';' the one entry is "a;b", and find("a:b") has returned null.
C23_Witness ==
    /\ Delimiter = ";"
    /\ {e.key : e \in data_[1]} = {<<"a", ";", "b">>}
    /\ last.op = "find"
    /\ last.key = <<"a", ":", "b">>
    /\ last.ptr = NULL

\* With ';' a key was split at ';' and its ':' stayed in a part.
C23_WitnessSplit ==
    /\ Delimiter = ";"
    /\ last.op = "split"
    /\ last.key = <<":", ";", "x">>
    /\ last.parts = << <<":">>, <<"x">> >>

\* With ':' add(n, "a", "b") has stored the node as "a:b".
C23_WitnessColon ==
    /\ Delimiter = ":"
    /\ last.op = "add"
    /\ last.args = << <<"a">>, <<"b">> >>
    /\ find(data_[1], <<"a", ":", "b">>) = last.node
    /\ last.node # NULL


-----------------------------------------------------------------------------
(* The node's type identity *)

\* The nodes that are constructed.
Constructed == {n \in PNodeIds : nodes[n].made}

C24_WitnessTypes ==
    /\ last.op = "underlying_type"
    /\ \E m \in Constructed :
            /\ nodes[m].kind = nodes[last.node].kind
            /\ nodes[m].type # nodes[last.node].type
            /\ underlying_type(nodes[m]) # last.val


-----------------------------------------------------------------------------
(* Accesses that fail *)

\* C25: node::set(v) never fails: under every policy and in every state the
\* node constructors and the node operations lead to, it returns normally,
\* signalling no error and ending no process.
C25_SetNeverFails ==
    last.op = "node_set" => (last.err = "none" /\ ~crashed)

\* A node constructed from an empty handle was set, and the process ended.
C25_WitnessEmptyHandle ==
    /\ Ownership = "by_shared"
    /\ last.op = "node_set"
    /\ nodes[last.node].made
    /\ nodes[last.node].ptr = NULL
    /\ last.err = "null_deref"
    /\ crashed

\* C30: no get or set on a by_shared node dereferences an empty handle:
\* whenever a node constructed from a value or from any handle is read or
\* written, directly or through a view, its handle points to a live cell or
\* the access is reported as an error the caller can handle.
C30_NoEmptyHandleDeref ==
    (Ownership = "by_shared" /\ last.op \in ReadOps \cup WriteOps /\ last.node # NULL)
        => \/ /\ nodes[last.node].ptr # NULL
              /\ nodes[last.node].ptr \in Owned(nodes, sp)
           \/ last.err = "runtime_error" /\ ~crashed

\* get() of a node constructed from an empty handle dereferenced it.
C30_WitnessEmptyHandle ==
    /\ Ownership = "by_shared"
    /\ last.op = "node_get"
    /\ nodes[last.node].made
    /\ nodes[last.node].ptr = NULL
    /\ last.err = "null_deref"
    /\ crashed


\* C26: in every state add, erase and clear lead to, contains(k) is true
\* exactly if find(k) returns a non-null pointer, and at(k) returns a
\* reference to a live node exactly if contains(k), also after add was given
\* an empty pointer.
C26_ContainsIffFindIffAt ==
    /\ \A k \in LookupKeys : contains(data_[1], k) <=> find(data_[1], k) # NULL
    /\ last.op = "at" =>
            (contains(data_[1], last.key)
                <=> /\ last.err = "none"
                    /\ last.ptr # NULL
                    /\ heap[last.ptr].state = "live")

\* An entry holds an empty pointer: contains is true of its key and find
\* returns null.
C26_WitnessEmptyEntry ==
    \E k \in LookupKeys :
        /\ contains(data_[1], k)
        /\ find(data_[1], k) = NULL
        /\ last.op = "add"
        /\ last.key = k
        /\ last.node = NULL


-----------------------------------------------------------------------------
(* The view's binding and the registry *)

RegistryWrites == {"add", "erase", "clear"}

\* The views bound to a node that no longer exists.
Stale == {w \in ViewIds : views[w] # NULL /\ heap[views[w]].state = "destroyed"}

\* C27: erase, clear and add, also when they remove and destroy the node a
\* view is bound to, leave the binding of every view as it was and every
\* valid view valid; a valid view's node may therefore no longer exist.
C27_BindingOutlivesNode ==
    [][last'.op \in RegistryWrites =>
            /\ views' = views
            /\ \A w \in ViewIds : valid(w) => valid(w)'
            /\ \A w \in ViewIds : ~valid(w) => ~valid(w)']_vars

\* erase destroyed the node a view is bound to, and the view is valid.
C27_Witness ==
    /\ exclusive
    /\ last.op = "erase"
    /\ last.flag
    /\ \E w \in Stale : valid(w)

\* An add under a key in use destroyed the node a view is bound to.
C27_WitnessOverwrite ==
    /\ last.op = "add"
    /\ last.flag
    /\ \E w \in Stale : valid(w) /\ views[w] = last.ptr

\* clear destroyed the node a view is bound to.
C27_WitnessClear ==
    /\ last.op = "clear"
    /\ \E w \in Stale : valid(w)

\* valid() answered true of a view whose node no longer exists.
C27_WitnessValid ==
    /\ last.op = "valid"
    /\ last.flag
    /\ last.view \in Stale


-----------------------------------------------------------------------------
(* The key of a single fragment *)

\* C28: the key an add of a single fragment f stores under is merge(f), the
\* empty fragment and fragments that contain the delimiter included; so an
\* add of the fragments f1..fk and an add of the one fragment merge(f1..fk)
\* address the same entry.
C28_SingleFragmentIsMerge ==
    last.op = "add" =>
        LET merged == merge(last.args, Delimiter)
        IN  /\ last.key = merged
            /\ make_key(<<merged>>, Delimiter) = last.key
            /\ MapFind(data_[last.reg], make_key(<<merged>>, Delimiter))
                    = {[key |-> last.key, ptr |-> last.node]}

\* A node was added under one fragment that contains the delimiter.
C28_Witness ==
    /\ last.op = "add"
    /\ Len(last.args) = 1
    /\ Occurrences(last.args[1], Delimiter) > 0
    /\ last.key = last.args[1]
    /\ last.node # NULL

\* A node was added under the empty fragment.
C28_WitnessEmpty ==
    /\ last.op = "add"
    /\ last.args = << <<>> >>
    /\ last.key = <<>>
    /\ contains(data_[1], <<>>)

\* A node was added under several fragments, the last of them empty.
C28_WitnessMerged ==
    /\ last.op = "add"
    /\ Len(last.args) = 3
    /\ last.args[3] = <<>>
    /\ last.key = <<"a", Delimiter, "b", Delimiter>>


-----------------------------------------------------------------------------
(* The address a by_reference node keeps *)

\* C29: the address of every by_reference node made by the node's
\* constructors is non-null, whatever was read and written since, so no get
\* or set of a node, directly or through a view, raises the dangling-
\* reference error, also after the variable referred to is gone.
C29_AddressNeverNull ==
    /\ \A n \in PNodeIds : nodes[n].made => nodes[n].ptr \in ExtIds
    /\ (last.op \in ReadOps \cup WriteOps /\ last.node # NULL)
            => last.err \notin {"runtime_error", "terminate"}

\* A node was read after its variable went out of scope, and the read
\* returned a value.
C29_Witness ==
    /\ last.op = "node_get"
    /\ Dangling(last.node)
    /\ last.err = "none"
    /\ ~crashed

\* A view wrote to a node whose variable was gone, and the process ended.
C29_WitnessView ==
    /\ last.op = "set_checked"
    /\ last.node # NULL
    /\ Dangling(last.node)
    /\ last.err = "abort"
    /\ crashed

=============================================================================
